---- MODULE Spec2Model ----
(***************************************************************************)
(* Asset decoders of vange-rs: the level loader (src/src/level.rs) and the *)
(* .c3d / .m3d decoders (src/src/model.rs), as state machines whose steps  *)
(* are the reads, checks and loops of the Rust code.  A panic of the code  *)
(* (unwrap, assert!, index out of bounds) ends the load: `failure` names   *)
(* the place that panicked and no result is produced.                      *)
(***************************************************************************)
EXTENDS Integers, Sequences, FiniteSets, TLC

VARIABLES
    \* ---- level::load ----
    lpc,          \* position of level::load
    config,       \* the LevelConfig (size, geo, section as exponents)
    vpr_len,      \* actual length of the .vpr file in bytes
    flood_offset, \* level.rs:58
    flood,        \* the flood map read from .vpr
    st_table,     \* per-row start offsets read from .vmc
    seekPos,      \* offset of the last seek on the .vmc stream
    y,            \* row being decompressed
    height, meta, \* the two decoded byte streams
    pal_file,     \* bytes of the .palette file
    pal_pos,      \* bytes of the .palette file consumed so far
    pal_i,        \* number of palette entries visited by the read loop
    pal,          \* the palette being filled
    floodReads,   \* number of read_u32 calls made on the .vpr stream
    vmcOpened,    \* whether the .vmc file has been opened and read from
    failure,      \* "none", or the failure that ended the load
    failRow,      \* the row reported by a row decompression failure
    level,        \* << >>, or << the returned Level >>
    \* ---- model::load_c3d, load_c3d_shape, load_m3d ----
    entry,        \* the function called: "c3d", "shape" or "m3d"
    mpc,          \* position of the decoder that is running
    ret,          \* where the running chunk decoder returns to
    version,      \* the version field of the current chunk
    fieldsRead,   \* number of fields read from the current chunk
    consumed,     \* bytes consumed from the source by the current record
    hdr,          \* num_positions, num_normals, num_polygons of the chunk
    positions,    \* positions read ([i8; 4] each)
    normals,      \* normals read ([u8; 4] each)
    poly_i,       \* polygons of the chunk decoded so far
    num_corners,  \* num_corners of the polygon being decoded
    color,        \* color of the polygon being decoded
    corner_k,     \* corners of the polygon read so far
    vertices,     \* load_c3d: the corner tuples (index, (pos, normal, color))
    gpu_verts,    \* load_c3d: the compacted GPU vertices
    indices,      \* load_c3d: the index buffer
    factory,      \* load_c3d_shape: whether a factory was passed
    d,            \* load_c3d_shape: the 7 i8 of the polygon record
    pids,         \* load_c3d_shape: the position ids of the polygon
    shape,        \* load_c3d_shape: the Shape being built
    ind,          \* load_c3d_shape: the edge indices, << >> without factory
    model,        \* load_m3d: the Model being built
    num_wheels,   \* load_m3d: num_wheels
    num_debris,   \* load_m3d: num_debris
    wheel,        \* load_m3d: the fields of the wheel record being decoded
    slot_mask,    \* load_m3d: slot_mask
    slot_i,       \* load_m3d: slot records read so far
    mfailure,     \* "none", or the panic that ended the decoding
    result,       \* << >>, or << what the called function returned >>
    \* ---- model::Tessellator on its own ----
    tpc,          \* position of the caller of the Tessellator
    tess_corners, \* the corners passed to tessellate
    tess_middle,  \* the middle passed to tessellate
    tess_samples, \* Tessellator::samples
    tess_calls,   \* calls of tessellate made so far
    \* ---- render::terrain::Context ----
    ctx_pc,       \* "none" before Context::new, then "live", or "panicked"
    terrain_config, \* the TerrainSettings passed to Context::new
    screen_extent,  \* the screen extent passed to Context::new
    ctx,          \* << >>, or << the Context >>
    device_count, \* objects created on the device so far (their ids)
    init_encoder, \* commands Context::new recorded into init_encoder
    encoder,      \* commands recorded by prepare, and by draw into its pass
    last_call,    \* the last method called on the Context and its argument
    ctx_calls,    \* method calls made on the Context so far
    ctx_failure,  \* "none", or the panic that ended a call
    \* ---- the sample ranges of load_c3d_shape, by their lengths ----
    rpc,          \* "idle", "loop" in the polygon loop, "returned"
    polygons_len, \* shape.polygons.len()
    samples_len,  \* shape.samples.len()
    first_range,  \* << >>, or << sample_range of shape.polygons[0] >>
    range_tail,   \* sample_range of the last two polygons pushed, or fewer
    \* ---- the model viewer, ResourceView ----
    rotation,     \* ResourceView::rotation in rad
    transform,    \* ResourceView::transform
    held,         \* the keys down by the events delivered so far
    app_last,     \* the last call of on_key or update, its input and return
    app_calls     \* calls of on_key and update made so far

levelVars == << lpc, config, vpr_len, flood_offset, flood, st_table, seekPos, y,
                height, meta, pal_file, pal_pos, pal_i, pal, floodReads,
                vmcOpened, failure, failRow, level >>

modelVars == << entry, mpc, ret, version, fieldsRead, consumed, hdr, positions,
                normals, poly_i, num_corners, color, corner_k, vertices, gpu_verts,
                indices, factory, d, pids, shape, ind, model, num_wheels,
                num_debris, wheel, slot_mask, slot_i, mfailure, result >>

\* the load_m3d variables, which the chunk decoders leave alone
m3dVars == << model, num_wheels, num_debris, wheel, slot_mask, slot_i >>

tessVars == << tpc, tess_corners, tess_middle, tess_samples, tess_calls >>

terrainVars == << ctx_pc, terrain_config, screen_extent, ctx, device_count,
                  init_encoder, encoder, last_call, ctx_calls, ctx_failure >>

rangeVars == << rpc, polygons_len, samples_len, first_range, range_tail >>

appVars == << rotation, transform, held, app_last, app_calls >>

\* the variables the level loader leaves alone
notLevelVars == << modelVars, tessVars, terrainVars, rangeVars, appVars >>

\* the variables the model decoders leave alone
notModelVars == << levelVars, tessVars, terrainVars, rangeVars, appVars >>

\* the variables a Tessellator on its own leaves alone
notTessVars == << levelVars, modelVars, terrainVars, rangeVars, appVars >>

\* the variables the terrain Context leaves alone
notTerrainVars == << levelVars, modelVars, tessVars, rangeVars, appVars >>

\* the variables the sample ranges leave alone
notRangeVars == << levelVars, modelVars, tessVars, terrainVars, appVars >>

\* the variables the model viewer leaves alone
notAppVars == << levelVars, modelVars, tessVars, terrainVars, rangeVars >>

vars == << levelVars, modelVars, tessVars, terrainVars, rangeVars, appVars >>

----------------------------------------------------------------------------
\* Bounds of the model.

\* largest exponent of the level width in the full load
MaxPowW == 1
\* largest exponent of the level height in the full load
MaxPowH == 1
\* largest geo / section exponent in the full load
MaxPowGeo == 1
\* largest size exponent when only the .vpr stage runs
MaxVprPow == 10
\* largest geo exponent when only the .vpr stage runs
MaxVprGeo == 2
\* largest section exponent when only the .vpr stage runs
MaxVprSection == 5
\* number of palette entries of the model (0x100 in level.rs:41 and :101)
PalEntries == 3

\* largest num_positions of a chunk decoded on its own
MaxPositions == 2
\* largest num_normals of a chunk decoded on its own
MaxNormals == 1
\* largest num_polygons of a chunk decoded on its own
MaxPolys == 1

\* largest num_wheels of a .m3d
MaxWheels == 1
\* largest num_debris of a .m3d
MaxDebris == 1

\* contents of a palette file: byte k of file content c
PalContents == {1, 2, 3}
\* row start offsets a .vmc table may hold
StVals == {12, 40}
\* contents of the flood block: word k of file content c
FloodFiles == {1, 3}

----------------------------------------------------------------------------
\* level.rs

Min(a, b) == IF a < b THEN a ELSE b

\* Power::as_value
as_value(p) == 2 ^ p

\* Power::as_power
as_power(p) == p

\* x >> n on a non-negative i32
Shr(x, n) == x \div (2 ^ n)

\* let size = (config.size.0.as_value(), config.size.1.as_value())
Size(c) == << as_value(c.size[1]), as_value(c.size[2]) >>

\* let flood_size = size.1 >> config.section.as_power()
FloodSize(c) == Shr(Size(c)[2], as_power(c.section))

\* let net_size = size.0 * size.1 >> (2 * geo_pow)
NetSize(c) == Shr(Size(c)[1] * Size(c)[2], 2 * as_power(c.geo))

\* the offset without the 2*geo_pow*4 term
FloodOffsetShort(c) ==
    2*4 + (1 + 4 + 4)*4 + 2*NetSize(c) + 2*FloodSize(c)*as_power(c.geo)*4

\* let flood_offset = (2*4 + (1+4+4)*4 + 2*net_size + 2*geo_pow*4 + 2*flood_size*geo_pow*4)
FloodOffset(c) ==
    2*4 + (1 + 4 + 4)*4 + 2*NetSize(c) + 2*as_power(c.geo)*4
        + 2*FloodSize(c)*as_power(c.geo)*4

\* let expected_file_size = flood_offset + (flood_size*4)
ExpectedFileSize(c) == FloodOffset(c) + FloodSize(c)*4

\* the little-endian u32 at word k of the flood block of file content c
VprWord(c, k) == (c * k) % 7

NoPalette == [i \in 1..PalEntries |-> << 0, 0, 0, 0 >>]

Configs(pw, ph, pg, ps) ==
    [ size : (0..pw) \X (0..ph), geo : 0..pg, section : 0..ps,
      is_compressed : BOOLEAN ]

\* .vpr files: of the expected length, one byte longer, without the flood block
VprLens(c) == { ExpectedFileSize(c), ExpectedFileSize(c) + 1, FloodOffset(c) }

\* no Tessellator is used on its own
IdleTess ==
    /\ tpc = "idle"
    /\ tess_corners = << >>
    /\ tess_middle = << 0, 0, 0 >>
    /\ tess_samples = << >>
    /\ tess_calls = 0

\* no call made on a Context
NoCall == [ op |-> "none", extent |-> << 0, 0 >> ]

\* no terrain Context is in use
IdleTerrain ==
    /\ ctx_pc = "idle"
    /\ terrain_config = "none"
    /\ screen_extent = << 0, 0 >>
    /\ ctx = << >>
    /\ device_count = 0
    /\ init_encoder = << >>
    /\ encoder = << >>
    /\ last_call = NoCall
    /\ ctx_calls = 0
    /\ ctx_failure = "none"

\* no sample ranges are followed
IdleRanges ==
    /\ rpc = "idle"
    /\ polygons_len = 0
    /\ samples_len = 0
    /\ first_range = << >>
    /\ range_tail = << >>

\* no call made on a ResourceView
NoAppCall == [ op |-> "none", state |-> "none", key |-> "none", delta |-> 0,
               ret |-> << >> ]

\* app.rs:48-52: the transform ResourceView::new gives: scale 1, displacement
\* unit_z, no rotation; the rotation is kept as its turn about z
NewTransform == [ scale |-> 1, disp |-> << 0, 0, 1 >>, turn |-> 0 ]

\* no model viewer is running
IdleApp ==
    /\ rotation = 0
    /\ transform = NewTransform
    /\ held = {}
    /\ app_last = NoAppCall
    /\ app_calls = 0

\* the model decoders when no model is being decoded
IdleModel ==
    /\ entry = "none"
    /\ mpc = "idle"
    /\ ret = "none"
    /\ version = 0
    /\ fieldsRead = 0
    /\ consumed = 0
    /\ hdr = [np |-> 0, nn |-> 0, npoly |-> 0]
    /\ positions = << >>
    /\ normals = << >>
    /\ poly_i = 0
    /\ num_corners = 0
    /\ color = << 0, 0 >>
    /\ corner_k = 0
    /\ vertices = << >>
    /\ gpu_verts = << >>
    /\ indices = << >>
    /\ factory = FALSE
    /\ d = << 0, 0, 0, 0, 0, 0, 0 >>
    /\ pids = << 0, 0, 0, 0 >>
    /\ shape = [ polygons |-> << >>, samples |-> << >> ]
    /\ ind = << >>
    /\ model = [ body |-> FALSE, shape |-> << >>, color |-> << 0, 0 >>,
                 wheels |-> << >>, debris |-> << >>, slots |-> << >> ]
    /\ num_wheels = 0
    /\ num_debris = 0
    /\ wheel = [ steer |-> 0, width |-> 0, radius |-> 0 ]
    /\ slot_mask = 0
    /\ slot_i = 0
    /\ mfailure = "none"
    /\ result = << >>

InitLevelWith(cs) ==
    /\ IdleModel
    /\ IdleTess
    /\ IdleTerrain
    /\ IdleRanges
    /\ IdleApp
    /\ lpc = "start"
    /\ config \in cs
    /\ vpr_len \in VprLens(config)
    /\ flood_offset = -1
    /\ flood = << >>
    /\ st_table = << >>
    /\ seekPos = -1
    /\ y = 0
    /\ height = << >>
    /\ meta = << >>
    /\ pal_file = << >>
    /\ pal_pos = 0
    /\ pal_i = 0
    /\ pal = << >>
    /\ floodReads = 0
    /\ vmcOpened = FALSE
    /\ failure = "none"
    /\ failRow = -1
    /\ level = << >>

Fail(kind) ==
    /\ lpc' = "failed"
    /\ failure' = kind

\* a length check that lets a longer file through
VprSizeAtLeast(len, c) == len >= ExpectedFileSize(c)

\* assert_eq!(vpr_file.metadata().unwrap().len(), expected_file_size as u64)
VprSizeOk(len, c) == len = ExpectedFileSize(c)

\* level.rs:49-60: assert!(config.is_compressed); open the .vpr file; compute
\* the flood offset and compare the file length with the expected one.
LoadVprCheck ==
    /\ UNCHANGED notLevelVars
    /\ lpc = "start"
    /\ IF ~config.is_compressed
       THEN Fail("NotCompressed") /\ UNCHANGED flood_offset
       ELSE \E exists \in BOOLEAN :
              IF ~exists
              THEN Fail("IoError") /\ UNCHANGED flood_offset
              ELSE /\ flood_offset' = FloodOffset(config)
                   /\ IF VprSizeOk(vpr_len, config)
                      THEN lpc' = "vpr_flood" /\ UNCHANGED failure
                      ELSE Fail("InvalidVprSize")
    /\ UNCHANGED << config, vpr_len, flood, st_table, seekPos, y, height, meta,
                    pal_file, pal_pos, pal_i, pal, floodReads, vmcOpened, failRow,
                    level >>

\* level.rs:61-65: seek to the flood block and read flood_size u32 words.
LoadVprFlood ==
    /\ UNCHANGED notLevelVars
    /\ lpc = "vpr_flood"
    /\ \E c \in FloodFiles :
          flood' = [k \in 1..FloodSize(config) |-> VprWord(c, k)]
    /\ floodReads' = floodReads + FloodSize(config)
    /\ lpc' = "vmc_open"
    /\ UNCHANGED << config, vpr_len, flood_offset, st_table, seekPos, y, height,
                    meta, pal_file, pal_pos, pal_i, pal, vmcOpened, failure,
                    failRow, level >>

\* level.rs:72-79: open the .vmc file and read size.1 pairs (i32 start, i16 size).
LoadVmcTables ==
    /\ UNCHANGED notLevelVars
    /\ lpc = "vmc_open"
    /\ \E ok \in BOOLEAN :
          IF ~ok
          THEN Fail("IoError") /\ UNCHANGED << st_table, vmcOpened >>
          ELSE /\ \E t \in [1..Size(config)[2] -> StVals] : st_table' = t
               /\ vmcOpened' = TRUE
               /\ lpc' = "splay_new"
               /\ UNCHANGED failure
    /\ UNCHANGED << config, vpr_len, flood_offset, flood, seekPos, y, height, meta,
                    pal_file, pal_pos, pal_i, pal, floodReads, failRow, level >>

\* level.rs:81: Splay::new reads both trees from the stream.
SplayNew ==
    /\ UNCHANGED notLevelVars
    /\ lpc = "splay_new"
    /\ \E ok \in BOOLEAN :
          IF ok
          THEN lpc' = "row_seek" /\ UNCHANGED failure
          ELSE Fail("InvalidSplayTable")
    /\ UNCHANGED << vmcOpened, config, vpr_len, flood_offset, flood, st_table, seekPos, y,
                    height, meta, pal_file, pal_pos, pal_i, pal, floodReads,
                    failRow, level >>

\* what one call of Splay::expand1 / expand2 can do: emit one symbol, or report
\* the end of the stream
ExpandOutcomes == {"symbol", "eof"}

\* Splay::expand1(src, out): one symbol appended to out; nothing on a truncated
\* stream (level.rs:89 drops what the call reports)
expand1(out, r) == IF r = "symbol" THEN Append(out, 0) ELSE out

\* Splay::expand2(src, out)
expand2(out, r) == IF r = "symbol" THEN Append(out, 0) ELSE out

\* let target_size = ((y+1) * size.0) as usize
target_size(c, row) == (row + 1) * Size(c)[1]

\* st_table[y as usize]
SeekTarget(t, row) == t[row + 1]

\* a loop that goes on while either buffer is short
LoopCondEither(h, m, t) == Len(h) < t \/ Len(m) < t

\* while height.len() < target_size && meta.len() < target_size
LoopCond(h, m, t) == Len(h) < t /\ Len(m) < t

\* level.rs:85-87: the next row: seek to its start.
RowSeek ==
    /\ UNCHANGED notLevelVars
    /\ lpc = "row_seek"
    /\ seekPos' = SeekTarget(st_table, y)
    /\ lpc' = "row_loop"
    /\ UNCHANGED << config, vpr_len, flood_offset, flood, st_table, y, height,
                    meta, pal_file, pal_pos, pal_i, pal, floodReads, vmcOpened,
                    failure, failRow, level >>

\* level.rs:88-91: one turn of the while loop: expand1 into height, then
\* expand2 into meta.
RowExpand ==
    /\ UNCHANGED notLevelVars
    /\ lpc = "row_loop"
    /\ LoopCond(height, meta, target_size(config, y))
    /\ \E r1 \in ExpandOutcomes, r2 \in ExpandOutcomes :
          /\ height' = expand1(height, r1)
          /\ meta' = expand2(meta, r2)
    /\ UNCHANGED << vmcOpened, lpc, config, vpr_len, flood_offset, flood, st_table, seekPos,
                    y, pal_file, pal_pos, pal_i, pal, floodReads, failure,
                    failRow, level >>

\* the row check without its second assertion
RowCompleteHeightOnly(h, m, t) == Len(h) = t

\* assert_eq!(height.len(), target_size); assert_eq!(meta.len(), target_size)
RowComplete(h, m, t) == Len(h) = t /\ Len(m) = t

\* level.rs:92-94: the loop has ended: both lengths are asserted, then the
\* for loop moves to the next row or ends.
RowAssert ==
    /\ UNCHANGED notLevelVars
    /\ lpc = "row_loop"
    /\ ~LoopCond(height, meta, target_size(config, y))
    /\ IF RowComplete(height, meta, target_size(config, y))
       THEN /\ y' = y + 1
            /\ lpc' = IF y + 1 < Size(config)[2] THEN "row_seek" ELSE "pal_open"
            /\ UNCHANGED << failure, failRow >>
       ELSE /\ Fail("RowDecompressionError")
            /\ failRow' = y
            /\ UNCHANGED y
    /\ UNCHANGED << config, vpr_len, flood_offset, flood, st_table, seekPos,
                    height, meta, pal_file, pal_pos, pal_i, pal, floodReads,
                    vmcOpened, level >>

\* byte k (from 0) of palette file content c
PalByte(c, k) ==
    IF c = 1 THEN (IF k % 4 = 3 THEN 255 ELSE 0)
    ELSE IF c = 2 THEN 255
    ELSE (IF k % 2 = 0 THEN 255 ELSE 0)

\* palette files of every length up to one byte more than 3 * PalEntries
PalFiles ==
    { [k \in 1..n |-> PalByte(c, k - 1)] : n \in 0..(3 * PalEntries + 1),
                                           c \in PalContents }

\* level.rs:100-101: open the palette file; let mut pal = [[0; 4]; 0x100].
PalOpen ==
    /\ UNCHANGED notLevelVars
    /\ lpc = "pal_open"
    /\ \E exists \in BOOLEAN :
          IF ~exists
          THEN Fail("IoError") /\ UNCHANGED << pal_file, pal >>
          ELSE /\ \E f \in PalFiles : pal_file' = f
               /\ pal' = NoPalette
               /\ lpc' = "pal_read"
               /\ UNCHANGED failure
    /\ UNCHANGED << config, vpr_len, flood_offset, flood, st_table, seekPos, y,
                    height, meta, pal_pos, pal_i, floodReads, vmcOpened, failRow,
                    level >>

\* Read::read(&mut buf[..want]) on the BufReader of a regular file: the bytes
\* copied are the next ones of the file, as many as are left up to want, and
\* Ok(n) also when n < want.
ReadCount(file, pos, want) == Min(want, Len(file) - pos)

\* an entry filled in the order B, G, R
ReadEntryReversed(p, file, pos) ==
    [j \in 1..4 |-> IF j <= ReadCount(file, pos, 3)
                     THEN file[pos + ReadCount(file, pos, 3) + 1 - j]
                     ELSE p[j]]

\* pal_file.read(&mut p[..3]).unwrap(): p as it is after the call
ReadEntry(p, file, pos) ==
    [j \in 1..4 |-> IF j <= ReadCount(file, pos, 3) THEN file[pos + j] ELSE p[j]]

\* level.rs:102-104: one turn of for p in pal.iter_mut().
PalRead ==
    /\ UNCHANGED notLevelVars
    /\ lpc = "pal_read"
    /\ pal_i < PalEntries
    /\ pal' = [pal EXCEPT ![pal_i + 1] = ReadEntry(@, pal_file, pal_pos)]
    /\ pal_pos' = pal_pos + ReadCount(pal_file, pal_pos, 3)
    /\ pal_i' = pal_i + 1
    /\ UNCHANGED << lpc, config, vpr_len, flood_offset, flood, st_table, seekPos,
                    y, height, meta, pal_file, floodReads, vmcOpened, failure,
                    failRow, level >>

\* level.rs:109-116: the Level is returned.
LoadDone ==
    /\ UNCHANGED notLevelVars
    /\ lpc = "pal_read"
    /\ pal_i = PalEntries
    /\ level' = << [ size |-> Size(config), flood_map |-> flood,
                     height |-> height, meta |-> meta, palette |-> pal ] >>
    /\ lpc' = "done"
    /\ UNCHANGED << config, vpr_len, flood_offset, flood, st_table, seekPos, y,
                    height, meta, pal_file, pal_pos, pal_i, pal, floodReads,
                    vmcOpened, failure, failRow >>

InitLevel == InitLevelWith(Configs(MaxPowW, MaxPowH, MaxPowGeo, MaxPowGeo))

NextLevel ==
    \/ LoadVprCheck
    \/ LoadVprFlood
    \/ LoadVmcTables
    \/ SplayNew
    \/ RowSeek
    \/ RowExpand
    \/ RowAssert
    \/ PalOpen
    \/ PalRead
    \/ LoadDone

\* level::load from the call to its return or panic, over small levels.
SpecLevel == InitLevel /\ [][NextLevel]_vars

InitVpr == InitLevelWith(Configs(MaxVprPow, MaxVprPow, MaxVprGeo, MaxVprSection))

NextVpr ==
    \/ LoadVprCheck
    \/ LoadVprFlood

\* The .vpr stage of level::load alone, over level sizes up to 2^MaxVprPow.
SpecVpr == InitVpr /\ [][NextVpr]_vars

----------------------------------------------------------------------------
\* Properties of level::load.

\* the level width and height, and the flood map length, from the exponents
LevelW == 2 ^ config.size[1]
LevelH == 2 ^ config.size[2]
FloodCount == LevelH \div (2 ^ config.section)

\* the flood block offset as the format description gives it
StatedOffset ==
    2*4 + 9*4 + 2 * ((LevelW * LevelH) \div (2 ^ (2 * config.geo)))
        + 2 * config.geo * 4 + 2 * FloodCount * config.geo * 4

\* C1: every Level returned by level::load has height.len() == meta.len() ==
\* (1<<size.0)*(1<<size.1) and flood_map.len() == (1<<size.1) >> section, and a
\* load that failed returns no Level.
C1_LevelLengths ==
    /\ level # << >> =>
          /\ Len(level[1].height) = LevelW * LevelH
          /\ Len(level[1].meta) = LevelW * LevelH
          /\ Len(level[1].flood_map) = FloodCount
          /\ failure = "none"
    /\ failure # "none" => level = << >>

\* C1 witness: a 2x2 level with one flood entry has been returned.
C1_Witness ==
    /\ level # << >>
    /\ LevelW = 2 /\ LevelH = 2
    /\ Len(level[1].height) = 4
    /\ Len(level[1].flood_map) = 1

\* C2 as stated: the expand calls of a row go on until both buffers have
\* reached (y+1)*W, that is, as long as either of them is shorter.
C2_UntilBothReach ==
    (lpc = "row_loop" /\ (Len(height) < (y + 1) * LevelW \/ Len(meta) < (y + 1) * LevelW))
        => ENABLED RowExpand

\* C2 (amended): rows are decoded in ascending order, each after a seek to
\* st_table[y]; the expand1/expand2 pair is called while both buffers are
\* shorter than (y+1)*W (until either reaches it); a row whose buffers are not
\* both exactly (y+1)*W long then fails the load with a row decompression
\* error for row y, and only such a row does.
C2_RowDecoding ==
    /\ lpc = "row_seek" => (y < LevelH /\ Len(height) = y * LevelW /\ Len(meta) = y * LevelW)
    /\ lpc = "row_loop" =>
          /\ y < LevelH
          /\ seekPos = st_table[y + 1]
          /\ y * LevelW <= Len(height) /\ Len(height) <= (y + 1) * LevelW
          /\ y * LevelW <= Len(meta) /\ Len(meta) <= (y + 1) * LevelW
          /\ (ENABLED RowExpand) <=>
                (Len(height) < (y + 1) * LevelW /\ Len(meta) < (y + 1) * LevelW)
    /\ failure = "RowDecompressionError" =>
          /\ failRow = y
          /\ (Len(height) # (y + 1) * LevelW \/ Len(meta) # (y + 1) * LevelW)
          /\ (Len(height) = (y + 1) * LevelW \/ Len(meta) = (y + 1) * LevelW)
    /\ lpc \in {"pal_open", "pal_read", "done"} =>
          (y = LevelH /\ Len(height) = LevelW * LevelH /\ Len(meta) = LevelW * LevelH)

\* C2 witness: the second row ended with height full and meta short, and the
\* load failed for that row.
C2_Witness ==
    /\ failure = "RowDecompressionError"
    /\ failRow = 1
    /\ Len(height) = 2 * LevelW
    /\ Len(meta) < 2 * LevelW

\* C3: the flood block offset is 2*4 + 9*4 + 2*(W*H >> 2*geo) + 2*geo*4 +
\* 2*(H>>section)*geo*4, the .vpr length the load accepts is the offset plus
\* 4*(H>>section), and size=(10,10), geo=2, section=5 give 131644 and 131772.
C3_FloodOffset ==
    /\ flood_offset # -1 =>
          /\ flood_offset = StatedOffset
          /\ (lpc \in {"vpr_flood", "vmc_open"}) <=>
                (vpr_len = flood_offset + 4 * FloodCount)
          /\ (failure = "InvalidVprSize") <=> (vpr_len # flood_offset + 4 * FloodCount)
    /\ (flood_offset # -1 /\ config.size = << 10, 10 >> /\ config.geo = 2
            /\ config.section = 5) =>
          /\ flood_offset = 131644
          /\ (lpc = "vpr_flood" => vpr_len = 131772)

\* C3 witness: the 1024x1024 level of the example passed the length check.
C3_Witness ==
    /\ config.size = << 10, 10 >> /\ config.geo = 2 /\ config.section = 5
    /\ lpc = "vpr_flood"
    /\ flood_offset = 131644
    /\ vpr_len = 131772

\* C4: for a compressed level whose .vpr file length differs from
\* offset + 4*(H>>section), the load fails with InvalidVprSize (or earlier, when
\* the file cannot be opened) before any flood entry or .vmc data is read, and
\* returns no Level.
C4_InvalidVprSize ==
    /\ failure = "InvalidVprSize" =>
          /\ vpr_len # flood_offset + 4 * FloodCount
          /\ floodReads = 0 /\ flood = << >>
          /\ ~vmcOpened
          /\ level = << >>
    /\ (lpc # "start" /\ config.is_compressed
            /\ vpr_len # StatedOffset + 4 * FloodCount) =>
          /\ failure \in {"InvalidVprSize", "IoError"}
          /\ floodReads = 0 /\ flood = << >>
          /\ ~vmcOpened
          /\ level = << >>

\* C4 witness: a .vpr file one byte too long was rejected.
C4_Witness ==
    /\ failure = "InvalidVprSize"
    /\ vpr_len = StatedOffset + 4 * FloodCount + 1
    /\ FloodCount > 0

\* the first nine bytes of the palette file of the example
ExampleBytes == << 0, 0, 0, 255, 0, 0, 0, 255, 0 >>

\* C5: a palette file of full length (3 bytes per entry) decodes to entries
\* [R_i, G_i, B_i, 0] taken from offsets 3i, 3i+1, 3i+2; the bytes
\* 00 00 00 FF 00 00 00 FF 00 give [0,0,0,0], [255,0,0,0], [0,255,0,0].
C5_PaletteDecode ==
    (level # << >> /\ Len(pal_file) = 3 * PalEntries) =>
        /\ Len(level[1].palette) = PalEntries
        /\ \A i \in 0..(PalEntries - 1) :
              level[1].palette[i + 1] =
                  << pal_file[3*i + 1], pal_file[3*i + 2], pal_file[3*i + 3], 0 >>
        /\ SubSeq(pal_file, 1, 9) = ExampleBytes =>
              /\ level[1].palette[1] = << 0, 0, 0, 0 >>
              /\ level[1].palette[2] = << 255, 0, 0, 0 >>
              /\ level[1].palette[3] = << 0, 255, 0, 0 >>

\* C5 witness: a Level was returned from a full palette file starting with
\* the bytes of the example.
C5_Witness ==
    /\ level # << >>
    /\ Len(pal_file) = 3 * PalEntries
    /\ SubSeq(pal_file, 1, 9) = ExampleBytes

\* C6 as stated: no Level is returned from a palette file shorter than 3 bytes
\* per entry; such a load fails with an I/O error.
C6_ShortPaletteFails ==
    /\ level # << >> => Len(pal_file) >= 3 * PalEntries
    /\ (lpc = "pal_read" /\ pal_i = PalEntries /\ Len(pal_file) < 3 * PalEntries)
          => failure = "IoError"


----------------------------------------------------------------------------
\* model.rs

\* render::NUM_COLOR_IDS
NUM_COLOR_IDS == 25
\* render::COLOR_ID_BODY
COLOR_ID_BODY == 1

\* values of the version field
VersionVals == {7, 8, 9}
\* values of num_corners
CornerVals == {2, 3, 4, 5}
\* values of the color (u32, u32) of a polygon record
ColorVals ==
    { << 0, 0 >>, << 0, 1 >>, << NUM_COLOR_IDS - 1, 1 >>, << NUM_COLOR_IDS, 0 >>,
      << 2147483647, 0 >> }
\* values of a position id: the first and the last index of the largest table,
\* and one past it
PidVals == {0, MaxPositions - 1, MaxPositions}
\* values of a normal id: the first normal, and one past the largest table
NidVals == {0, MaxNormals}
\* values of the middle point of a polygon record
MidVals == { << 0, 0, 0 >>, << -7, 5, 127 >> }
\* contents of the position and normal tables: record k of content c
TableContents == {1, 2}

\* values of steer in a wheel record
SteerVals == {0, 1}
\* values of slot_mask
SlotMasks == {0, 1, 5, 7, 8, 13}
\* model.rs:8
MAX_SLOTS == 3

\* The chunks of a .m3d are drawn from a smaller family than a chunk decoded on
\* its own: one position, one normal, at most one polygon, one table content,
\* one color, one middle point, and position ids 0 (valid) and 1 (past the end).
NpVals == IF entry = "m3d" THEN {1} ELSE 0..MaxPositions
NnVals == IF entry = "m3d" THEN {1} ELSE 0..MaxNormals
NpolyVals == IF entry = "m3d" THEN {0, 1} ELSE 0..MaxPolys
TableChoices == IF entry = "m3d" THEN {1} ELSE TableContents
ColorChoices == IF entry = "m3d" THEN { << 0, 0 >> } ELSE ColorVals
MidChoices == IF entry = "m3d" THEN { << -7, 5, 127 >> } ELSE MidVals
PidChoices == IF entry = "m3d" THEN {0, 1} ELSE PidVals
NidChoices == IF entry = "m3d" THEN {0} ELSE NidVals

\* the Model before anything is decoded (model.rs:343-354)
NoModel ==
    [ body |-> FALSE, shape |-> << >>, color |-> << 0, 0 >>, wheels |-> << >>,
      debris |-> << >>, slots |-> << >> ]

\* no wheel record is being decoded
NoWheel == [ steer |-> 0, width |-> 0, radius |-> 0 ]

\* the level loader when no level is being loaded
IdleLevel ==
    /\ lpc = "idle"
    /\ config = [ size |-> << 0, 0 >>, geo |-> 0, section |-> 0,
                  is_compressed |-> TRUE ]
    /\ vpr_len = 0
    /\ flood_offset = -1
    /\ flood = << >>
    /\ st_table = << >>
    /\ seekPos = -1
    /\ y = 0
    /\ height = << >>
    /\ meta = << >>
    /\ pal_file = << >>
    /\ pal_pos = 0
    /\ pal_i = 0
    /\ pal = << >>
    /\ floodReads = 0
    /\ vmcOpened = FALSE
    /\ failure = "none"
    /\ failRow = -1
    /\ level = << >>

\* the (i8, i8, i8) of position record k in a table of content c, with the 1
\* the decoders append (model.rs:149-153 and 264-268)
PosAt(c, k) == IF c = 1 THEN << 10 * k, 0 - k, 127, 1 >> ELSE << -128, 5, -7, 1 >>

\* the four bytes of normal record k in a table of content c (model.rs:161-162)
NormAt(c, k) == IF c = 1 THEN << k, 0, 200, 0 >> ELSE << 255, 128, 127, 1 >>

\* a panic of the decoder: unwrap on a failed read, assert!, index out of bounds
MFail(kind) ==
    /\ mpc' = "failed"
    /\ mfailure' = kind

\* a version check that accepts later versions too
VersionAtLeast(v) == v >= 8

\* assert_eq!(version, 8)
VersionOk(v) == v = 8

\* the chunk decoders start at the version field of a chunk
StartChunk(dec, back) ==
    /\ mpc' = dec
    /\ ret' = back
    /\ version' = 0
    /\ fieldsRead' = 0
    /\ consumed' = 0
    /\ hdr' = [np |-> 0, nn |-> 0, npoly |-> 0]
    /\ positions' = << >>
    /\ normals' = << >>
    /\ poly_i' = 0
    /\ num_corners' = 0
    /\ color' = << 0, 0 >>
    /\ corner_k' = 0
    /\ vertices' = << >>
    /\ gpu_verts' = << >>
    /\ indices' = << >>
    /\ d' = << 0, 0, 0, 0, 0, 0, 0 >>
    /\ pids' = << 0, 0, 0, 0 >>
    /\ ind' = << >>

\* model.rs:116-117: let version = source.read_u32(); assert_eq!(version, 8).
MeshVersion ==
    /\ UNCHANGED m3dVars
    /\ UNCHANGED << factory, d, pids, shape, ind >>
    /\ mpc = "c3d_version"
    /\ \E v \in VersionVals :
          /\ version' = v
          /\ IF VersionOk(v)
             THEN mpc' = "c3d_header" /\ UNCHANGED mfailure
             ELSE MFail("UnsupportedVersion")
    /\ fieldsRead' = fieldsRead + 1
    /\ consumed' = consumed + 4
    /\ UNCHANGED << entry, ret, hdr, positions, normals, poly_i, num_corners, color,
                    corner_k, vertices, gpu_verts, indices, result >>
    /\ UNCHANGED notModelVars

\* model.rs:118-143: the counts, total_verts, the bounds (3 x 3 i32), max_radius,
\* parent_rot (3 i32) and 13 f64 of physics.
MeshHeader ==
    /\ UNCHANGED m3dVars
    /\ UNCHANGED << factory, d, pids, shape, ind >>
    /\ mpc = "c3d_header"
    /\ \E np \in NpVals, nn \in NnVals, npoly \in NpolyVals :
          hdr' = [np |-> np, nn |-> nn, npoly |-> npoly]
    /\ fieldsRead' = fieldsRead + 4 + 9 + 1 + 3 + 13
    /\ consumed' = consumed + 4*4 + 9*4 + 4 + 3*4 + 13*8
    /\ mpc' = "c3d_positions"
    /\ UNCHANGED << entry, ret, version, positions, normals, poly_i, num_corners,
                    color, corner_k, vertices, gpu_verts, indices, mfailure,
                    result >>
    /\ UNCHANGED notModelVars

\* model.rs:146-156: num_positions records of 3 i32, 3 i8 and a u32.
MeshPositions ==
    /\ UNCHANGED m3dVars
    /\ UNCHANGED << factory, d, pids, shape, ind >>
    /\ mpc = "c3d_positions"
    /\ \E c \in TableChoices : positions' = [k \in 1..hdr.np |-> PosAt(c, k)]
    /\ fieldsRead' = fieldsRead + 7 * hdr.np
    /\ consumed' = consumed + (3*4 + 3 + 4) * hdr.np
    /\ mpc' = "c3d_normals"
    /\ UNCHANGED << entry, ret, version, hdr, normals, poly_i, num_corners, color,
                    corner_k, vertices, gpu_verts, indices, mfailure, result >>
    /\ UNCHANGED notModelVars

\* model.rs:159-165: num_normals records of 4 bytes and a u32.
MeshNormals ==
    /\ UNCHANGED m3dVars
    /\ UNCHANGED << factory, d, pids, shape, ind >>
    /\ mpc = "c3d_normals"
    /\ \E c \in TableChoices : normals' = [k \in 1..hdr.nn |-> NormAt(c, k)]
    /\ fieldsRead' = fieldsRead + 2 * hdr.nn
    /\ consumed' = consumed + (4 + 4) * hdr.nn
    /\ mpc' = "c3d_poly"
    /\ UNCHANGED << entry, ret, version, hdr, positions, poly_i, num_corners, color,
                    corner_k, vertices, gpu_verts, indices, mfailure, result >>
    /\ UNCHANGED notModelVars

\* a corner check that lets quads through
MeshCornersUpTo4(n) == n = 3 \/ n = 4

\* assert_eq!(num_corners, 3)
MeshCornersOk(n) == n = 3

\* model.rs:169-171: the next polygon: num_corners is read and asserted.
MeshPolyHead ==
    /\ UNCHANGED m3dVars
    /\ UNCHANGED << factory, d, pids, shape, ind >>
    /\ mpc = "c3d_poly"
    /\ poly_i < hdr.npoly
    /\ \E n \in CornerVals :
          /\ num_corners' = n
          /\ IF MeshCornersOk(n)
             THEN mpc' = "c3d_poly_body" /\ UNCHANGED mfailure
             ELSE MFail("InvalidPolygon")
    /\ corner_k' = 0
    /\ fieldsRead' = fieldsRead + 1
    /\ consumed' = consumed + 4
    /\ UNCHANGED << entry, ret, version, hdr, positions, normals, poly_i, color,
                    vertices, gpu_verts, indices, result >>
    /\ UNCHANGED notModelVars

\* model.rs:172-176: sort info, the two color words, the flat normal (4 bytes)
\* and the middle point (3 bytes).
MeshPolyBody ==
    /\ UNCHANGED m3dVars
    /\ UNCHANGED << factory, d, pids, shape, ind >>
    /\ mpc = "c3d_poly_body"
    /\ \E c \in ColorChoices : color' = c
    /\ fieldsRead' = fieldsRead + 5
    /\ consumed' = consumed + 4 + 2*4 + 4 + 3
    /\ mpc' = "c3d_corner"
    /\ UNCHANGED << entry, ret, version, hdr, positions, normals, poly_i,
                    num_corners, corner_k, vertices, gpu_verts, indices, mfailure,
                    result >>
    /\ UNCHANGED notModelVars

\* model.rs:177-182: one corner: pid and nid are read, both tables are indexed and
\* the tuple (i*3+k, (position, normal, color)) is pushed.
MeshCorner ==
    /\ UNCHANGED m3dVars
    /\ UNCHANGED << factory, d, pids, shape, ind >>
    /\ mpc = "c3d_corner"
    /\ corner_k < num_corners
    /\ \E pid \in PidChoices, nid \in NidChoices :
          IF pid >= Len(positions) \/ nid >= Len(normals)
          THEN /\ MFail("IndexOutOfBounds")
               /\ UNCHANGED << vertices, corner_k, poly_i >>
          ELSE /\ vertices' = Append(vertices,
                      << poly_i * 3 + corner_k,
                         << positions[pid + 1], normals[nid + 1], color >> >>)
               /\ corner_k' = corner_k + 1
               /\ IF corner_k + 1 < num_corners
                  THEN UNCHANGED << mpc, poly_i >>
                  ELSE mpc' = "c3d_poly" /\ poly_i' = poly_i + 1
               /\ UNCHANGED mfailure
    /\ fieldsRead' = fieldsRead + 2
    /\ consumed' = consumed + 2*4
    /\ UNCHANGED << entry, ret, version, hdr, positions, normals, num_corners,
                    color, gpu_verts, indices, result >>
    /\ UNCHANGED notModelVars

\* model.rs:185-189: the three tables of num_polygons u32 are read and dropped.
MeshSortTables ==
    /\ UNCHANGED m3dVars
    /\ UNCHANGED << factory, d, pids, shape, ind >>
    /\ mpc = "c3d_poly"
    /\ poly_i = hdr.npoly
    /\ fieldsRead' = fieldsRead + 3 * hdr.npoly
    /\ consumed' = consumed + 3 * hdr.npoly * 4
    /\ mpc' = "c3d_compact"
    /\ UNCHANGED << entry, ret, version, hdr, positions, normals, poly_i,
                    num_corners, color, corner_k, vertices, gpu_verts, indices,
                    mfailure, result >>
    /\ UNCHANGED notModelVars

\* n as i8 for a byte n
AsI8(n) == IF n >= 128 THEN n - 256 ELSE n

\* a conversion that compares the color with <=
convertInclusive(key) ==
    [ pos |-> key[1],
      color |-> IF key[3][1] <= NUM_COLOR_IDS THEN key[3][1] ELSE COLOR_ID_BODY,
      normal |-> [j \in 1..4 |-> AsI8(key[2][j])] ]

\* model.rs:192-196: the closure convert, from (p, n, c) to an ObjectVertex
convert(key) ==
    [ pos |-> key[1],
      color |-> IF key[3][1] < NUM_COLOR_IDS THEN key[3][1] ELSE COLOR_ID_BODY,
      normal |-> [j \in 1..4 |-> AsI8(key[2][j])] ]

\* the ten numbers of a key ([i8; 4], [u8; 4], [u32; 2]) in the order Ord compares
Flat(key) == key[1] \o key[2] \o key[3]

\* the derived Ord of the key: lexicographic, a < b
RECURSIVE LexLess(_, _)
LexLess(a, b) ==
    IF a = << >> \/ b = << >> THEN FALSE
    ELSE IF Head(a) # Head(b) THEN Head(a) < Head(b)
    ELSE LexLess(Tail(a), Tail(b))

\* v put into the sorted t after every tuple whose key is not greater
InsertByKey(t, v) ==
    LET n == Cardinality({ i \in 1..Len(t) : ~LexLess(Flat(v[2]), Flat(t[i][2])) })
    IN  SubSeq(t, 1, n) \o << v >> \o SubSeq(t, n + 1, Len(t))

\* vertices.sort_by_key(|v| v.1): a stable sort by the key (model.rs:202)
RECURSIVE SortByKey(_)
SortByKey(vs) ==
    IF vs = << >> THEN << >>
    ELSE InsertByKey(SortByKey(SubSeq(vs, 1, Len(vs) - 1)), vs[Len(vs)])

\* c ^ 1
Xor1(c) == IF c % 2 = 0 THEN c + 1 ELSE c - 1

\* len as u16
AsU16(n) == n % 65536

\* model.rs:314-315: the sample_range of a polygon pushed when shape.samples
\* holds len samples and tessellate returned n of them
SampleRange(len, n) == << AsU16(len), AsU16(len + n) >>

\* model.rs:208-215: the loop over the sorted tuples from tuple i on; st holds
\* last, v_id, gpu_verts and indices
RECURSIVE CompactLoop(_, _, _)
CompactLoop(vs, i, st) ==
    IF i > Len(vs) THEN st
    ELSE LET v == vs[i]
             fresh == v[2] # st.last
             vid == IF fresh THEN AsU16(Len(st.gpu_verts)) ELSE st.v_id
         IN  CompactLoop(vs, i + 1,
                [ last |-> IF fresh THEN v[2] ELSE st.last,
                  v_id |-> vid,
                  gpu_verts |-> IF fresh THEN Append(st.gpu_verts, convert(v[2]))
                                ELSE st.gpu_verts,
                  indices |-> [st.indices EXCEPT ![v[1] + 1] = vid] ])

\* model.rs:202-215 for a non-empty vertices: sort, then the loop started with
\* last = the first key with its color[0] changed
Compact(vs) ==
    LET sorted == SortByKey(vs)
        first == sorted[1][2]
    IN  CompactLoop(sorted, 1,
            [ last |-> << first[1], first[2], << Xor1(first[3][1]), first[3][2] >> >>,
              v_id |-> 0,
              gpu_verts |-> << >>,
              indices |-> [i \in 1..Len(vs) |-> 0] ])

\* model.rs:199-216: compaction; vertices[0] panics on an empty vertices.
MeshCompact ==
    /\ UNCHANGED m3dVars
    /\ UNCHANGED << factory, d, pids, shape, ind >>
    /\ mpc = "c3d_compact"
    /\ IF vertices = << >>
       THEN MFail("EmptyVertices") /\ UNCHANGED << gpu_verts, indices >>
       ELSE /\ gpu_verts' = Compact(vertices).gpu_verts
            /\ indices' = Compact(vertices).indices
            /\ mpc' = "c3d_built"
            /\ UNCHANGED mfailure
    /\ UNCHANGED << entry, ret, version, fieldsRead, consumed, hdr, positions,
                    normals, poly_i, num_corners, color, corner_k, vertices,
                    result >>
    /\ UNCHANGED notModelVars

\* model.rs:224-231: the Mesh is returned to the caller.
MeshDone ==
    /\ UNCHANGED m3dVars
    /\ UNCHANGED << factory, d, pids, shape, ind >>
    /\ mpc = "c3d_built"
    /\ ret = "top"
    /\ result' = << [ kind |-> "Mesh", num_vertices |-> Len(gpu_verts),
                      num_indices |-> Len(indices) ] >>
    /\ mpc' = "done"
    /\ UNCHANGED << entry, ret, version, fieldsRead, consumed, hdr, positions,
                    normals, poly_i, num_corners, color, corner_k, vertices,
                    gpu_verts, indices, mfailure >>
    /\ UNCHANGED notModelVars

\* no halving at all
HalfNone(x) == x

\* x / 2 as a shift: the quotient is rounded down
HalfFloor(x) == x \div 2

\* x / 2 on an i8: the quotient is truncated toward zero
Half(x) == IF x >= 0 THEN x \div 2 ELSE 0 - ((0 - x) \div 2)

\* an i32 sum kept as i8 (two's complement)
WrapI8(x) == ((x + 128) % 256) - 128

\* model.rs:90-99: Tessellator::tessellate: the middle, then one sample per
\* corner, dv.pos[j]/2 + middle[j]/2 in each coordinate
tessellate(corners, middle) ==
    << middle >> \o
    [c \in 1..Len(corners) |->
        [j \in 1..3 |-> WrapI8(Half(corners[c][j]) + Half(middle[j]))]]

\* model.rs:94-96: whether a sum of two halves leaves i8, which panics in a
\* build with overflow checks and wraps in one without
Overflows(corners, middle) ==
    \E c \in 1..Len(corners) : \E j \in 1..3 :
        LET sum == Half(corners[c][j]) + Half(middle[j])
        IN  sum < -128 \/ sum > 127

\* a corner check that accepts any polygon of at least 3 corners
ShapeCornersAtLeast3(n) == 3 <= n

\* assert!(3 <= num_corners && num_corners <= 4)
ShapeCornersOk(n) == 3 <= n /\ n <= 4

\* model.rs:241-242: let version = source.read_u32(); assert_eq!(version, 8).
ShapeVersion ==
    /\ UNCHANGED m3dVars
    /\ mpc = "shp_version"
    /\ \E v \in VersionVals :
          /\ version' = v
          /\ IF VersionOk(v)
             THEN mpc' = "shp_header" /\ UNCHANGED mfailure
             ELSE MFail("UnsupportedVersion")
    /\ fieldsRead' = fieldsRead + 1
    /\ consumed' = consumed + 4
    /\ UNCHANGED << entry, ret, hdr, positions, normals, poly_i, num_corners, color,
                    corner_k, vertices, gpu_verts, indices, factory, d, pids,
                    shape, ind, result >>
    /\ UNCHANGED notModelVars

\* model.rs:243-260: the counts, total_verts, coord_max and coord_min are read;
\* parent offset, max radius, parent rotation and physics are seeked over.
ShapeHeader ==
    /\ UNCHANGED m3dVars
    /\ mpc = "shp_header"
    /\ \E np \in NpVals, nn \in NnVals, npoly \in NpolyVals :
          hdr' = [np |-> np, nn |-> nn, npoly |-> npoly]
    /\ shape' = [ polygons |-> << >>, samples |-> << >> ]
    /\ fieldsRead' = fieldsRead + 4 + 6
    /\ consumed' = consumed + 4*4 + 6*4 + ((3 + 1 + 3) * 4 + (1 + 3 + 9) * 8)
    /\ mpc' = "shp_positions"
    /\ UNCHANGED << entry, ret, version, positions, normals, poly_i, num_corners,
                    color, corner_k, vertices, gpu_verts, indices, factory, d,
                    pids, ind, mfailure, result >>
    /\ UNCHANGED notModelVars

\* a seek over the four bytes of each normal, its sort info left in place
NormalsSeekNoSortInfo(nn) == nn * (4*1)

\* model.rs:275-277: the bytes seeked over for num_normals normals
NormalsSeek(nn) == nn * (4*1 + 4)

\* model.rs:262-281: num_positions records are read, the normals are seeked
\* over, and the edge index list is created when there is a factory.
ShapePositions ==
    /\ UNCHANGED m3dVars
    /\ mpc = "shp_positions"
    /\ \E c \in TableChoices : positions' = [k \in 1..hdr.np |-> PosAt(c, k)]
    /\ fieldsRead' = fieldsRead + 7 * hdr.np
    /\ consumed' = consumed + (3*4 + 3 + 4) * hdr.np + NormalsSeek(hdr.nn)
    /\ ind' = << >>
    /\ mpc' = "shp_poly"
    /\ UNCHANGED << entry, ret, version, hdr, normals, poly_i, num_corners, color,
                    corner_k, vertices, gpu_verts, indices, factory, d, pids,
                    shape, mfailure, result >>
    /\ UNCHANGED notModelVars

\* model.rs:286-287: the next polygon: num_corners is read and asserted.
ShapePolyHead ==
    /\ UNCHANGED m3dVars
    /\ mpc = "shp_poly"
    /\ poly_i < hdr.npoly
    /\ \E n \in CornerVals :
          /\ num_corners' = n
          /\ IF ShapeCornersOk(n)
             THEN mpc' = "shp_poly_body" /\ UNCHANGED mfailure
             ELSE MFail("InvalidPolygon")
    /\ corner_k' = 0
    /\ fieldsRead' = fieldsRead + 1
    /\ consumed' = consumed + 4
    /\ UNCHANGED << entry, ret, version, hdr, positions, normals, poly_i, color,
                    vertices, gpu_verts, indices, factory, d, pids, shape, ind,
                    result >>
    /\ UNCHANGED notModelVars

\* model.rs:288-293: sort info and color are seeked over, the 7 i8 (flat normal,
\* one byte, middle point) are read, and pids starts as [0; 4].
ShapePolyBody ==
    /\ UNCHANGED m3dVars
    /\ mpc = "shp_poly_body"
    /\ \E m \in MidChoices : d' = << 0, 64, -128, 0, m[1], m[2], m[3] >>
    /\ pids' = << 0, 0, 0, 0 >>
    /\ fieldsRead' = fieldsRead + 7
    /\ consumed' = consumed + (4 + 4 + 4) + 7
    /\ mpc' = "shp_corner"
    /\ UNCHANGED << entry, ret, version, hdr, positions, normals, poly_i,
                    num_corners, color, corner_k, vertices, gpu_verts, indices,
                    factory, shape, ind, mfailure, result >>
    /\ UNCHANGED notModelVars

\* model.rs:294-297: one corner: pid is kept, nid is read and dropped.
ShapeCorner ==
    /\ UNCHANGED m3dVars
    /\ mpc = "shp_corner"
    /\ corner_k < num_corners
    /\ \E pid \in PidChoices : pids' = [pids EXCEPT ![corner_k + 1] = pid]
    /\ corner_k' = corner_k + 1
    /\ fieldsRead' = fieldsRead + 2
    /\ consumed' = consumed + 2*4
    /\ UNCHANGED << entry, mpc, ret, version, hdr, positions, normals, poly_i,
                    num_corners, color, vertices, gpu_verts, indices, factory, d,
                    shape, ind, mfailure, result >>
    /\ UNCHANGED notModelVars

\* model.rs:298-304: the edges (pids[i], pids[(i+1) % num_corners]) of a polygon
Edges(ps, n) ==
    [e \in 1..(2 * n) |->
        IF e % 2 = 1 THEN ps[(e + 1) \div 2]
        ELSE ps[((e \div 2) % n) + 1]]

\* model.rs:298-318: the corners were read: the edges are pushed when there is
\* a factory, positions is indexed with all four pids, the samples are
\* tessellated and the polygon is pushed.
ShapePolyEnd ==
    /\ UNCHANGED m3dVars
    /\ mpc = "shp_corner"
    /\ corner_k = num_corners
    /\ IF \E j \in 1..4 : pids[j] >= Len(positions)
       THEN /\ MFail("IndexOutOfBounds")
            /\ UNCHANGED << shape, poly_i >>
       ELSE LET corners == [j \in 1..4 |-> positions[pids[j] + 1]]
                samples == tessellate(corners, << d[5], d[6], d[7] >>)
            IN  /\ shape' =
                      [ polygons |-> Append(shape.polygons,
                            [ middle |-> << d[5], d[6], d[7] >>,
                              normal128 |-> << d[1], d[2], d[3] >>,
                              sample_range |->
                                  SampleRange(Len(shape.samples), Len(samples)) ]),
                        samples |-> shape.samples \o samples ]
                /\ poly_i' = poly_i + 1
                /\ mpc' = "shp_poly"
                /\ UNCHANGED mfailure
    /\ ind' = IF factory THEN ind \o Edges(pids, num_corners) ELSE ind
    /\ UNCHANGED << entry, ret, version, fieldsRead, consumed, hdr, positions,
                    normals, num_corners, color, corner_k, vertices, gpu_verts,
                    indices, factory, d, pids, result >>
    /\ UNCHANGED notModelVars

\* model.rs:320-332: the debug buffers are created when there is a factory, and
\* the three tables of num_polygons u32 are seeked over.
ShapeFinish ==
    /\ UNCHANGED m3dVars
    /\ mpc = "shp_poly"
    /\ poly_i = hdr.npoly
    /\ consumed' = consumed + 3 * hdr.npoly * 4
    /\ mpc' = "shp_built"
    /\ UNCHANGED << entry, ret, version, fieldsRead, hdr, positions, normals,
                    poly_i, num_corners, color, corner_k, vertices, gpu_verts,
                    indices, factory, d, pids, shape, ind, mfailure, result >>
    /\ UNCHANGED notModelVars

\* model.rs:334: the Shape is returned to the caller.
ShapeDone ==
    /\ UNCHANGED m3dVars
    /\ mpc = "shp_built"
    /\ ret = "top"
    /\ result' = << [ kind |-> "Shape", shape |-> shape, debug |-> factory ] >>
    /\ mpc' = "done"
    /\ UNCHANGED << entry, ret, version, fieldsRead, consumed, hdr, positions,
                    normals, poly_i, num_corners, color, corner_k, vertices,
                    gpu_verts, indices, factory, d, pids, shape, ind, mfailure >>
    /\ UNCHANGED notModelVars

\* the locals of a chunk decoder are dropped when it returns
EndChunk(next) == StartChunk(next, "none")

\* model.rs:344: the body mesh is decoded and stored in the Model.
BodyDone ==
    /\ mpc = "c3d_built"
    /\ ret = "body"
    /\ model' = [model EXCEPT !.body = TRUE]
    /\ EndChunk("m3d_header")
    /\ UNCHANGED << entry, factory, shape, num_wheels, num_debris, wheel, slot_mask,
                    slot_i, mfailure, result >>
    /\ UNCHANGED notModelVars

\* model.rs:355-361: bounds (3 i32), max_radius, num_wheels, num_debris and the
\* two color words.
M3dHeader ==
    /\ mpc = "m3d_header"
    /\ \E nw \in 0..MaxWheels, nd \in 0..MaxDebris :
          /\ num_wheels' = nw
          /\ num_debris' = nd
    /\ model' = [model EXCEPT !.color = << 3, 4 >>]
    /\ consumed' = 3*4 + 4 + 4 + 4 + 2*4
    /\ mpc' = "m3d_parts"
    /\ UNCHANGED << entry, ret, version, fieldsRead, hdr, positions, normals,
                    poly_i, num_corners, color, corner_k, vertices, gpu_verts,
                    indices, factory, d, pids, shape, ind, wheel, slot_mask,
                    slot_i, mfailure, result >>
    /\ UNCHANGED notModelVars

\* a wheel test that never reads a mesh
HasMeshNever(steer) == FALSE

\* model.rs:376: if steer != 0
HasMesh(steer) == steer # 0

\* model.rs:364-383: one wheel record: steer, pos (3 f64), width, radius and the
\* bound index; a mesh follows inline when steer != 0.
M3dWheel ==
    /\ mpc = "m3d_parts"
    /\ Len(model.wheels) < num_wheels
    /\ \E steer \in SteerVals :
          IF HasMesh(steer)
          THEN /\ wheel' = [ steer |-> steer, width |-> 2, radius |-> 5 ]
               /\ StartChunk("c3d_version", "wheel")
               /\ UNCHANGED model
          ELSE /\ model' = [model EXCEPT !.wheels =
                      Append(@, [ mesh |-> FALSE, steer |-> steer, width |-> 2,
                                  radius |-> 5 ])]
               /\ consumed' = 4 + 3*8 + 4 + 4 + 4
               /\ UNCHANGED << mpc, ret, version, fieldsRead, hdr, positions,
                               normals, poly_i, num_corners, color, corner_k,
                               vertices, gpu_verts, indices, d, pids, ind, wheel >>
    /\ UNCHANGED << entry, factory, shape, num_wheels, num_debris, slot_mask,
                    slot_i, mfailure, result >>
    /\ UNCHANGED notModelVars

\* model.rs:375-383: the wheel with its inline mesh is pushed.
WheelMeshDone ==
    /\ mpc = "c3d_built"
    /\ ret = "wheel"
    /\ model' = [model EXCEPT !.wheels =
            Append(@, [ mesh |-> TRUE, steer |-> wheel.steer,
                        width |-> wheel.width, radius |-> wheel.radius ])]
    /\ wheel' = NoWheel
    /\ EndChunk("m3d_parts")
    /\ UNCHANGED << entry, factory, shape, num_wheels, num_debris, slot_mask,
                    slot_i, mfailure, result >>
    /\ UNCHANGED notModelVars

\* model.rs:387-389: the next debris: its mesh is decoded with load_c3d.
M3dDebris ==
    /\ mpc = "m3d_parts"
    /\ Len(model.wheels) = num_wheels
    /\ Len(model.debris) < num_debris
    /\ StartChunk("c3d_version", "debris")
    /\ UNCHANGED << entry, factory, shape, model, num_wheels, num_debris, wheel,
                    slot_mask, slot_i, mfailure, result >>
    /\ UNCHANGED notModelVars

\* model.rs:390: the debris shape is decoded with load_c3d_shape, without
\* factory.
DebrisMeshDone ==
    /\ mpc = "c3d_built"
    /\ ret = "debris"
    /\ StartChunk("shp_version", "debris")
    /\ factory' = FALSE
    /\ UNCHANGED << entry, shape, model, num_wheels, num_debris, wheel, slot_mask,
                    slot_i, mfailure, result >>
    /\ UNCHANGED notModelVars

\* model.rs:388-391: the Debrie is pushed.
DebrisShapeDone ==
    /\ mpc = "shp_built"
    /\ ret = "debris"
    /\ model' = [model EXCEPT !.debris =
            Append(@, [ mesh |-> TRUE, shape |-> shape, debug |-> factory ])]
    /\ shape' = [ polygons |-> << >>, samples |-> << >> ]
    /\ EndChunk("m3d_parts")
    /\ UNCHANGED << entry, factory, num_wheels, num_debris, wheel, slot_mask,
                    slot_i, mfailure, result >>
    /\ UNCHANGED notModelVars

\* model.rs:395: the body shape is decoded with load_c3d_shape and the factory.
M3dShape ==
    /\ mpc = "m3d_parts"
    /\ Len(model.wheels) = num_wheels
    /\ Len(model.debris) = num_debris
    /\ StartChunk("shp_version", "body_shape")
    /\ factory' = TRUE
    /\ UNCHANGED << entry, shape, model, num_wheels, num_debris, wheel, slot_mask,
                    slot_i, mfailure, result >>
    /\ UNCHANGED notModelVars

\* model.rs:395: the body shape is stored in the Model.
BodyShapeDone ==
    /\ mpc = "shp_built"
    /\ ret = "body_shape"
    /\ model' = [model EXCEPT !.shape = << [ shape |-> shape, debug |-> factory ] >>]
    /\ shape' = [ polygons |-> << >>, samples |-> << >> ]
    /\ EndChunk("m3d_slot_mask")
    /\ UNCHANGED << entry, factory, num_wheels, num_debris, wheel, slot_mask,
                    slot_i, mfailure, result >>
    /\ UNCHANGED notModelVars

\* model.rs:397-399: slot_mask is read; consumed counts the bytes read after it.
M3dSlotMask ==
    /\ mpc = "m3d_slot_mask"
    /\ \E mask \in SlotMasks :
          /\ slot_mask' = mask
          /\ mpc' = IF mask # 0 THEN "m3d_slot" ELSE "m3d_built"
    /\ slot_i' = 0
    /\ consumed' = 0
    /\ UNCHANGED << entry, ret, version, fieldsRead, hdr, positions, normals,
                    poly_i, num_corners, color, corner_k, vertices, gpu_verts,
                    indices, factory, d, pids, shape, ind, model, num_wheels,
                    num_debris, wheel, mfailure, result >>
    /\ UNCHANGED notModelVars

\* slot record i of the file: pos (3 i32) and angle
SlotRecord(i) ==
    [ pos |-> << 3*i + 1, 3*i + 2, 3*i + 3 >>, angle |-> 10 * (i + 1) ]

\* a bit test that is off by one bit
BitSetAbove(mask, i) == (mask \div (2 ^ (i + 1))) % 2 = 1

\* slot_mask & (1 << i) != 0
BitSet(mask, i) == (mask \div (2 ^ i)) % 2 = 1

\* model.rs:400-412: one slot record is read and kept when its bit is set.
M3dSlot ==
    /\ mpc = "m3d_slot"
    /\ slot_i < MAX_SLOTS
    /\ model' = IF BitSet(slot_mask, slot_i)
                THEN [model EXCEPT !.slots =
                        Append(@, [ mesh |-> FALSE, scale |-> 1,
                                    pos |-> SlotRecord(slot_i).pos,
                                    angle |-> SlotRecord(slot_i).angle ])]
                ELSE model
    /\ slot_i' = slot_i + 1
    /\ consumed' = consumed + 3*4 + 4
    /\ mpc' = IF slot_i + 1 < MAX_SLOTS THEN "m3d_slot" ELSE "m3d_built"
    /\ UNCHANGED << entry, ret, version, fieldsRead, hdr, positions, normals,
                    poly_i, num_corners, color, corner_k, vertices, gpu_verts,
                    indices, factory, d, pids, shape, ind, num_wheels, num_debris,
                    wheel, slot_mask, mfailure, result >>
    /\ UNCHANGED notModelVars

\* model.rs:415: the Model is returned.
M3dDone ==
    /\ mpc = "m3d_built"
    /\ result' = << [ kind |-> "Model", model |-> model ] >>
    /\ mpc' = "done"
    /\ UNCHANGED << entry, ret, version, fieldsRead, consumed, hdr, positions,
                    normals, poly_i, num_corners, color, corner_k, vertices,
                    gpu_verts, indices, factory, d, pids, shape, ind, model,
                    num_wheels, num_debris, wheel, slot_mask, slot_i, mfailure >>
    /\ UNCHANGED notModelVars

\* whether the decoder is about to read from the source
PendingRead ==
    \/ mpc \in {"c3d_version", "c3d_header", "c3d_poly_body"}
    \/ mpc = "c3d_positions" /\ hdr.np > 0
    \/ mpc = "c3d_normals" /\ hdr.nn > 0
    \/ mpc = "c3d_poly" /\ hdr.npoly > 0
    \/ mpc = "c3d_corner" /\ corner_k < num_corners
    \/ mpc \in {"shp_version", "shp_header", "shp_poly_body"}
    \/ mpc = "shp_positions" /\ hdr.np > 0
    \/ mpc = "shp_poly" /\ poly_i < hdr.npoly
    \/ mpc = "shp_corner" /\ corner_k < num_corners
    \/ mpc \in {"m3d_header", "m3d_slot_mask", "m3d_slot"}
    \/ mpc = "m3d_parts" /\ Len(model.wheels) < num_wheels

\* the source ends before the next read: its unwrap() panics.
SourceEnds ==
    /\ UNCHANGED m3dVars
    /\ UNCHANGED << factory, d, pids, shape, ind >>
    /\ PendingRead
    /\ MFail("IoError")
    /\ UNCHANGED << entry, ret, version, fieldsRead, consumed, hdr, positions,
                    normals, poly_i, num_corners, color, corner_k, vertices,
                    gpu_verts, indices, result >>
    /\ UNCHANGED notModelVars

InitModel ==
    /\ IdleLevel
    /\ IdleTess
    /\ IdleTerrain
    /\ IdleRanges
    /\ IdleApp
    /\ entry \in {"c3d", "shape", "m3d"}
    /\ mpc = IF entry = "shape" THEN "shp_version" ELSE "c3d_version"
    /\ ret = IF entry = "m3d" THEN "body" ELSE "top"
    /\ version = 0
    /\ fieldsRead = 0
    /\ consumed = 0
    /\ hdr = [np |-> 0, nn |-> 0, npoly |-> 0]
    /\ positions = << >>
    /\ normals = << >>
    /\ poly_i = 0
    /\ num_corners = 0
    /\ color = << 0, 0 >>
    /\ corner_k = 0
    /\ vertices = << >>
    /\ gpu_verts = << >>
    /\ indices = << >>
    /\ factory \in (IF entry = "shape" THEN BOOLEAN ELSE {FALSE})
    /\ d = << 0, 0, 0, 0, 0, 0, 0 >>
    /\ pids = << 0, 0, 0, 0 >>
    /\ shape = [ polygons |-> << >>, samples |-> << >> ]
    /\ ind = << >>
    /\ model = NoModel
    /\ num_wheels = 0
    /\ num_debris = 0
    /\ wheel = NoWheel
    /\ slot_mask = 0
    /\ slot_i = 0
    /\ mfailure = "none"
    /\ result = << >>

NextModel ==
    \/ MeshVersion
    \/ MeshHeader
    \/ MeshPositions
    \/ MeshNormals
    \/ MeshPolyHead
    \/ MeshPolyBody
    \/ MeshCorner
    \/ MeshSortTables
    \/ MeshCompact
    \/ MeshDone
    \/ ShapeVersion
    \/ ShapeHeader
    \/ ShapePositions
    \/ ShapePolyHead
    \/ ShapePolyBody
    \/ ShapeCorner
    \/ ShapePolyEnd
    \/ ShapeFinish
    \/ ShapeDone
    \/ BodyDone
    \/ M3dHeader
    \/ M3dWheel
    \/ WheelMeshDone
    \/ M3dDebris
    \/ DebrisMeshDone
    \/ DebrisShapeDone
    \/ M3dShape
    \/ BodyShapeDone
    \/ M3dSlotMask
    \/ M3dSlot
    \/ M3dDone
    \/ SourceEnds

\* load_c3d, load_c3d_shape and load_m3d, each from its call to its return or
\* panic.
SpecModel == InitModel /\ [][NextModel]_vars

----------------------------------------------------------------------------
\* model::Tessellator used on its own: new, then calls of tessellate on the
\* same Tessellator.

\* the largest number of corners passed to tessellate
MaxTessCorners == 4
\* the largest number of calls made on one Tessellator
MaxTessCalls == 2

\* corners as DebugVertex positions ([i8; 4], the last 1)
CornerVecs ==
    { << 10, 0, 0, 1 >>, << 0, 10, 0, 1 >>, << -10, 0, 0, 1 >>,
      << 0, -10, 0, 1 >>, << -7, 127, -128, 1 >> }
\* middles ([i8; 3])
MiddleVecs ==
    { << 0, 0, 0 >>, << -7, 5, 127 >>, << 1, -1, -128 >>, << 127, 127, 127 >> }

\* the corners of a quad around the origin
QuadCorners ==
    << << 10, 0, 0, 1 >>, << 0, 10, 0, 1 >>, << -10, 0, 0, 1 >>,
       << 0, -10, 0, 1 >> >>

\* the sequences of at most n corners
CornerSeqs(n) == UNION { [1..k -> CornerVecs] : k \in 0..n }

\* the inputs of a later call on the same Tessellator
LaterCorners == { << >>, QuadCorners }

InitTess ==
    /\ IdleLevel
    /\ IdleModel
    /\ IdleTerrain
    /\ IdleRanges
    /\ IdleApp
    /\ tpc = "start"
    /\ tess_corners \in CornerSeqs(MaxTessCorners)
    /\ tess_middle \in MiddleVecs
    /\ tess_samples = << >>
    /\ tess_calls = 0

\* model.rs:87-89: Tessellator::new.
TessNew ==
    /\ tpc = "start"
    /\ tess_samples' = << >>
    /\ tpc' = "ready"
    /\ UNCHANGED << tess_corners, tess_middle, tess_calls >>
    /\ UNCHANGED notTessVars

\* model.rs:90-99: Tessellator::tessellate: samples is cleared and filled; a
\* sum that leaves i8 panics or wraps, as the build has it.
Tessellate ==
    /\ tpc = "ready"
    /\ \/ /\ tess_samples' = tessellate(tess_corners, tess_middle)
          /\ tpc' = "returned"
       \/ /\ Overflows(tess_corners, tess_middle)
          /\ tess_samples' = << tess_middle >>
          /\ tpc' = "panicked"
    /\ tess_calls' = tess_calls + 1
    /\ UNCHANGED << tess_corners, tess_middle >>
    /\ UNCHANGED notTessVars

\* the caller passes the next polygon to the same Tessellator (model.rs:285,
\* 310).
TessNextCall ==
    /\ tpc = "returned"
    /\ tess_calls < MaxTessCalls
    /\ tess_corners' \in LaterCorners
    /\ tess_middle' = << 0, 0, 0 >>
    /\ tpc' = "ready"
    /\ UNCHANGED << tess_samples, tess_calls >>
    /\ UNCHANGED notTessVars

NextTess ==
    \/ TessNew
    \/ Tessellate
    \/ TessNextCall

SpecTess == InitTess /\ [][NextTess]_vars

----------------------------------------------------------------------------
\* render::terrain::Context: new, reload, resize, prepare and draw.  A GPU
\* object is the id the device gave it (the count of objects created before
\* it) with the description it was created from.

\* the largest number of method calls made on one Context
MaxCtxCalls == 3

\* terrain.rs:15
SCATTER_GROUP_SIZE == << 16, 16, 1 >>

\* the TerrainSettings variants
TerrainKinds == { "RayTracedOld", "RayTraced", "Tessellated", "Sliced", "Scattered" }

\* screen extents (width, height)
ScreenExtents ==
    { << 1, 1 >>, << 16, 15 >>, << 17, 32 >>, << 800, 600 >>, << 1920, 1080 >>,
      << 65535, 31 >> }

\* outcomes of building the shaders of a variant: all built, or the k-th
\* Shaders::new of the call returns an error
ShaderOutcomes == { 0, 1, 2, 3 }

\* the bind group of the GlobalContext, which the device of the model did
\* not create
GlobalBindGroup == -1

\* objects Context::new creates before the variant: 4 textures, 4 staging
\* buffers, the palette, 3 samplers, the bind group layout, 2 uniform
\* buffers, the bind group and the pipeline layout (terrain.rs:333-614)
BaseObjects == 17

\* terrain.rs:78-135: two shader modules (ids n, n+1), then the pipeline
create_ray_pipeline(layout, n) ==
    [ id |-> n + 2, shaders |-> "terrain/ray_old", layout |-> layout ]

\* terrain.rs:137-194
create_slice_pipeline(layout, n) ==
    [ id |-> n + 2, shaders |-> "terrain/slice", layout |-> layout ]

\* terrain.rs:196-262: the scatter module and pipeline, the clear module and
\* pipeline, the two copy modules and the copy pipeline
create_scatter_pipelines(layout, n) ==
    [ scatter |-> [ id |-> n + 1, shaders |-> "terrain/scatter", layout |-> layout ],
      clear |-> [ id |-> n + 3, shaders |-> "terrain/scatter_clear",
                  layout |-> layout ],
      copy |-> [ id |-> n + 6, shaders |-> "terrain/scatter_copy",
                 layout |-> layout ] ]

\* objects created by create_scatter_pipelines before its k-th Shaders::new
ScatterObjectsBefore(k) == IF k = 1 THEN 0 ELSE IF k = 2 THEN 2 ELSE 4

\* a group count that rounds the extent down
GroupCountFloor(w, g) == w \div g

\* terrain.rs:291-292: (w / g) + (w % g).min(1)
GroupCount(w, g) == (w \div g) + Min(w % g, 1)

\* terrain.rs:264-296: the storage texture (id n), its view (n + 1) and the
\* bind group (n + 2), and the group count
create_scatter_resources(extent, layout, n) ==
    [ bind_group |->
          [ id |-> n + 2, layout |-> layout,
            texture |-> [ id |-> n, size |-> extent ] ],
      group_count |->
          << GroupCount(extent[1], SCATTER_GROUP_SIZE[1]),
             GroupCount(extent[2], SCATTER_GROUP_SIZE[2]), 1 >> ]

\* a command recorded into an encoder or a pass
Cmd(op, args) == [ op |-> op, args |-> args ]

\* the Shaders::new calls of the pipelines of a variant
ShaderCalls(cfg) == IF cfg = "Scattered" THEN 3 ELSE 1

\* the outcomes of building the shaders of a variant
OutcomesOf(cfg) == { o \in ShaderOutcomes : o <= ShaderCalls(cfg) }

InitTerrain ==
    /\ IdleLevel
    /\ IdleModel
    /\ IdleTess
    /\ IdleRanges
    /\ IdleApp
    /\ ctx_pc = "none"
    /\ terrain_config \in TerrainKinds
    /\ screen_extent \in ScreenExtents
    /\ ctx = << >>
    /\ device_count = 0
    /\ init_encoder = << >>
    /\ encoder = << >>
    /\ last_call = NoCall
    /\ ctx_calls = 0
    /\ ctx_failure = "none"

\* terrain.rs:616-699: the variant built for cfg from n objects on, with the
\* shared pipeline layout
NewKind(cfg, layout, extent, n) ==
    CASE cfg = "RayTracedOld" ->
            [ tag |-> "Ray", pipeline |-> create_ray_pipeline(layout, n + 2),
              vertex_buf |-> n, index_buf |-> n + 1, num_indices |-> 12 ]
      [] cfg = "Sliced" ->
            [ tag |-> "Slice", pipeline |-> create_slice_pipeline(layout, n + 2),
              vertex_buf |-> n, index_buf |-> n + 1, num_indices |-> 6 ]
      [] cfg = "Scattered" ->
            LET ps == create_scatter_pipelines(n + 1, n + 2)
                rs == create_scatter_resources(extent, n, n + 9)
            IN  [ tag |-> "Scatter", pipeline_layout |-> n + 1, bg_layout |-> n,
                  scatter_pipeline |-> ps.scatter, clear_pipeline |-> ps.clear,
                  copy_pipeline |-> ps.copy, bind_group |-> rs.bind_group,
                  compute_groups |-> rs.group_count ]

\* objects a variant creates when it is built
KindObjects(cfg) == IF cfg = "Scattered" THEN 12 ELSE 5

\* a test that takes Sliced for unimplemented as well
UnimplementedAlsoSliced(cfg) == cfg \in { "RayTraced", "Tessellated", "Sliced" }

\* terrain.rs:642-643: the variants whose arm is unimplemented!()
Unimplemented(cfg) == cfg \in { "RayTraced", "Tessellated" }

\* terrain.rs:298-707: Context::new: the level textures are created and their
\* uploads recorded, then the variant is built; RayTraced and Tessellated are
\* unimplemented!(), and a Shaders::new error is unwrapped.
CtxNew ==
    /\ ctx_pc = "none"
    /\ init_encoder' =
          << Cmd("copy_buffer_to_texture", << 4, 0 >>),
             Cmd("copy_buffer_to_texture", << 5, 1 >>),
             Cmd("copy_buffer_to_texture", << 6, 2 >>),
             Cmd("copy_buffer_to_texture", << 7, 3 >>),
             Cmd("Palette::new", << 8 >>) >>
    /\ IF Unimplemented(terrain_config)
       THEN /\ ctx_pc' = "panicked"
            /\ ctx_failure' = "Unimplemented"
            /\ device_count' = BaseObjects
            /\ UNCHANGED ctx
       ELSE \E o \in OutcomesOf(terrain_config) :
               IF o = 0
               THEN /\ ctx' = << [ uniform_buf |-> 14, bind_group |-> 15,
                                   pipeline_layout |-> 16,
                                   kind |-> NewKind(terrain_config, 16,
                                                    screen_extent, BaseObjects) ] >>
                    /\ device_count' = BaseObjects + KindObjects(terrain_config)
                    /\ ctx_pc' = "live"
                    /\ UNCHANGED ctx_failure
               ELSE /\ ctx_pc' = "panicked"
                    /\ ctx_failure' = "ShaderError"
                    /\ device_count' = BaseObjects + 2 + ScatterObjectsBefore(o)
                    /\ UNCHANGED ctx
    /\ UNCHANGED << terrain_config, screen_extent, encoder, last_call, ctx_calls >>
    /\ UNCHANGED notTerrainVars

\* a reload that turns a Slice Context into a Ray Context
ReloadedAsRay(c, n) ==
    CASE c.kind.tag \in { "Ray", "Slice" } ->
            [c EXCEPT !.kind.tag = "Ray",
                      !.kind.pipeline = create_ray_pipeline(c.pipeline_layout, n)]
      [] c.kind.tag = "Scatter" ->
            LET ps == create_scatter_pipelines(c.kind.pipeline_layout, n)
            IN  [c EXCEPT !.kind.scatter_pipeline = ps.scatter,
                          !.kind.clear_pipeline = ps.clear,
                          !.kind.copy_pipeline = ps.copy]

\* a reload that also rebuilds the Scatter resources
ReloadedAll(c, n) ==
    CASE c.kind.tag = "Ray" ->
            [c EXCEPT !.kind.pipeline = create_ray_pipeline(c.pipeline_layout, n)]
      [] c.kind.tag = "Slice" ->
            [c EXCEPT !.kind.pipeline = create_slice_pipeline(c.pipeline_layout, n)]
      [] c.kind.tag = "Scatter" ->
            LET ps == create_scatter_pipelines(c.kind.pipeline_layout, n)
                rs == create_scatter_resources(c.kind.bind_group.texture.size,
                                               c.kind.bg_layout, n + 7)
            IN  [c EXCEPT !.kind.scatter_pipeline = ps.scatter,
                          !.kind.clear_pipeline = ps.clear,
                          !.kind.copy_pipeline = ps.copy,
                          !.kind.bind_group = rs.bind_group]

\* terrain.rs:709-742: the Context after a reload whose pipelines were all
\* created, from n objects on
Reloaded(c, n) ==
    CASE c.kind.tag = "Ray" ->
            [c EXCEPT !.kind.pipeline = create_ray_pipeline(c.pipeline_layout, n)]
      [] c.kind.tag = "Slice" ->
            [c EXCEPT !.kind.pipeline = create_slice_pipeline(c.pipeline_layout, n)]
      [] c.kind.tag = "Scatter" ->
            LET ps == create_scatter_pipelines(c.kind.pipeline_layout, n)
            IN  [c EXCEPT !.kind.scatter_pipeline = ps.scatter,
                          !.kind.clear_pipeline = ps.clear,
                          !.kind.copy_pipeline = ps.copy]

\* a reload that stores each Scatter pipeline as soon as it is created
FailedReloadPartial(c, n, k) ==
    IF c.kind.tag = "Scatter" /\ k > 1
    THEN [c EXCEPT !.kind.scatter_pipeline =
                create_scatter_pipelines(c.kind.pipeline_layout, n).scatter]
    ELSE c

\* terrain.rs:712, 724, 736-739: the Context after a reload whose k-th
\* Shaders::new failed: the pipelines are stored only after the create function
\* returned, so none is
FailedReload(c, n, k) == c

\* objects a reload creates
ReloadObjects(c) == IF c.kind.tag = "Scatter" THEN 7 ELSE 3

\* terrain.rs:709-742: Context::reload.
CtxReload ==
    /\ ctx_pc = "live"
    /\ ctx_calls < MaxCtxCalls
    /\ \E o \in OutcomesOf(terrain_config) :
          IF o = 0
          THEN /\ ctx' = << Reloaded(ctx[1], device_count) >>
               /\ device_count' = device_count + ReloadObjects(ctx[1])
               /\ UNCHANGED << ctx_pc, ctx_failure >>
          ELSE /\ ctx' = << FailedReload(ctx[1], device_count, o) >>
               /\ device_count' = device_count + ScatterObjectsBefore(o)
               /\ ctx_pc' = "panicked"
               /\ ctx_failure' = "ShaderError"
    /\ last_call' = [ op |-> "reload", extent |-> << 0, 0 >> ]
    /\ ctx_calls' = ctx_calls + 1
    /\ UNCHANGED << terrain_config, screen_extent, init_encoder, encoder >>
    /\ UNCHANGED notTerrainVars

\* a resize that keeps the group count
ResizedTextureOnly(c, e, n) ==
    IF c.kind.tag = "Scatter"
    THEN [c EXCEPT !.kind.bind_group =
                create_scatter_resources(e, c.kind.bg_layout, n).bind_group]
    ELSE c

\* terrain.rs:744-755: the Context after resize(e), from n objects on
Resized(c, e, n) ==
    IF c.kind.tag = "Scatter"
    THEN LET rs == create_scatter_resources(e, c.kind.bg_layout, n)
         IN  [c EXCEPT !.kind.bind_group = rs.bind_group,
                       !.kind.compute_groups = rs.group_count]
    ELSE c

\* terrain.rs:744-755: Context::resize.
CtxResize ==
    /\ ctx_pc = "live"
    /\ ctx_calls < MaxCtxCalls
    /\ \E e \in ScreenExtents :
          /\ ctx' = << Resized(ctx[1], e, device_count) >>
          /\ last_call' = [ op |-> "resize", extent |-> e ]
    /\ device_count' = IF ctx[1].kind.tag = "Scatter" THEN device_count + 3
                       ELSE device_count
    /\ ctx_calls' = ctx_calls + 1
    /\ UNCHANGED << ctx_pc, terrain_config, screen_extent, init_encoder, encoder,
                    ctx_failure >>
    /\ UNCHANGED notTerrainVars

\* a prepare that dispatches the scatter pipeline before the clear pipeline
PreparedScatterFirst(c) ==
    IF c.kind.tag = "Scatter"
    THEN << Cmd("begin_compute_pass", << >>),
            Cmd("set_bind_group", << 0, GlobalBindGroup >>),
            Cmd("set_bind_group", << 1, c.bind_group >>),
            Cmd("set_bind_group", << 2, c.kind.bind_group.id >>),
            Cmd("set_pipeline", << c.kind.scatter_pipeline.id >>),
            Cmd("dispatch", << 100, 100, 1 >>),
            Cmd("set_pipeline", << c.kind.clear_pipeline.id >>),
            Cmd("dispatch", c.kind.compute_groups) >>
    ELSE << >>

\* a prepare that clears for every variant
PreparedAlways(c) == << Cmd("begin_compute_pass", << >>) >>

\* terrain.rs:757-774: the commands prepare records
Prepared(c) ==
    IF c.kind.tag = "Scatter"
    THEN << Cmd("begin_compute_pass", << >>),
            Cmd("set_bind_group", << 0, GlobalBindGroup >>),
            Cmd("set_bind_group", << 1, c.bind_group >>),
            Cmd("set_bind_group", << 2, c.kind.bind_group.id >>),
            Cmd("set_pipeline", << c.kind.clear_pipeline.id >>),
            Cmd("dispatch", c.kind.compute_groups),
            Cmd("set_pipeline", << c.kind.scatter_pipeline.id >>),
            Cmd("dispatch", << 100, 100, 1 >>) >>
    ELSE << >>

\* terrain.rs:757-774: Context::prepare.
CtxPrepare ==
    /\ ctx_pc = "live"
    /\ ctx_calls < MaxCtxCalls
    /\ encoder' = encoder \o Prepared(ctx[1])
    /\ last_call' = [ op |-> "prepare", extent |-> << 0, 0 >> ]
    /\ ctx_calls' = ctx_calls + 1
    /\ UNCHANGED << ctx_pc, terrain_config, screen_extent, ctx, device_count,
                    init_encoder, ctx_failure >>
    /\ UNCHANGED notTerrainVars

\* terrain.rs:776-803: the commands draw records into its pass
Drawn(c) ==
    << Cmd("set_bind_group", << 1, c.bind_group >>) >> \o
    CASE c.kind.tag = "Ray" ->
            << Cmd("set_pipeline", << c.kind.pipeline.id >>),
               Cmd("set_index_buffer", << c.kind.index_buf, 0 >>),
               Cmd("set_vertex_buffers", << c.kind.vertex_buf, 0 >>),
               Cmd("draw_indexed", << 0, c.kind.num_indices, 0, 0, 1 >>) >>
      [] c.kind.tag = "Slice" ->
            << Cmd("set_pipeline", << c.kind.pipeline.id >>),
               Cmd("set_index_buffer", << c.kind.index_buf, 0 >>),
               Cmd("set_vertex_buffers", << c.kind.vertex_buf, 0 >>),
               Cmd("draw_indexed", << 0, c.kind.num_indices, 0, 0, 256 >>) >>
      [] c.kind.tag = "Scatter" ->
            << Cmd("set_pipeline", << c.kind.copy_pipeline.id >>),
               Cmd("set_bind_group", << 2, c.kind.bind_group.id >>),
               Cmd("draw", << 0, 4, 0, 1 >>) >>

\* terrain.rs:776-803: Context::draw.
CtxDraw ==
    /\ ctx_pc = "live"
    /\ ctx_calls < MaxCtxCalls
    /\ encoder' = encoder \o Drawn(ctx[1])
    /\ last_call' = [ op |-> "draw", extent |-> << 0, 0 >> ]
    /\ ctx_calls' = ctx_calls + 1
    /\ UNCHANGED << ctx_pc, terrain_config, screen_extent, ctx, device_count,
                    init_encoder, ctx_failure >>
    /\ UNCHANGED notTerrainVars

NextTerrain ==
    \/ CtxNew
    \/ CtxReload
    \/ CtxResize
    \/ CtxPrepare
    \/ CtxDraw

\* a Context from Context::new through any calls of its methods.
SpecTerrain == InitTerrain /\ [][NextTerrain]_vars

----------------------------------------------------------------------------
\* The sample ranges of load_c3d_shape over a long polygon loop.  Only the
\* lengths of shape.polygons and shape.samples are kept, with the first and the
\* last two sample ranges pushed.

\* polygons decoded by one load_c3d_shape at most
MaxShapePolys == 13108

\* model.rs:305-310: the number of samples tessellate returns for the corners
\* array, which has four entries
QuadSampleCount ==
    Len(tessellate([j \in 1..4 |-> PosAt(1, 0)], << 0, 0, 0 >>))

\* model.rs:246-250: a Shape with no polygon and no sample.
InitRanges ==
    /\ IdleLevel
    /\ IdleModel
    /\ IdleTess
    /\ IdleTerrain
    /\ IdleApp
    /\ rpc = "loop"
    /\ polygons_len = 0
    /\ samples_len = 0
    /\ first_range = << >>
    /\ range_tail = << >>

\* model.rs:283-318: one round of the polygon loop: the polygon is pushed with
\* its sample_range and the samples are appended.
RangePush ==
    /\ rpc = "loop"
    /\ polygons_len < MaxShapePolys
    /\ LET r == SampleRange(samples_len, QuadSampleCount)
       IN  /\ first_range' = IF polygons_len = 0 THEN << r >> ELSE first_range
           /\ range_tail' = IF range_tail = << >>
                                THEN << r >>
                                ELSE << range_tail[Len(range_tail)], r >>
    /\ polygons_len' = polygons_len + 1
    /\ samples_len' = samples_len + QuadSampleCount
    /\ UNCHANGED rpc
    /\ UNCHANGED notRangeVars

\* model.rs:283, 334: the loop ends after num_polygons rounds, a u32 of the
\* header that may be any count, and the Shape is returned.
RangeReturn ==
    /\ rpc = "loop"
    /\ polygons_len \in 0..MaxShapePolys
    /\ rpc' = "returned"
    /\ UNCHANGED << polygons_len, samples_len, first_range, range_tail >>
    /\ UNCHANGED notRangeVars

NextRanges ==
    \/ RangePush
    \/ RangeReturn

\* load_c3d_shape from its first polygon to its return, by lengths.
SpecRanges == InitRanges /\ [][NextRanges]_vars

----------------------------------------------------------------------------
\* The model viewer: ResourceView under key events and updates.

\* app.rs:75
ANGLE == 2

\* calls of on_key and update followed
MaxAppCalls == 4

\* virtual key codes: "none" is an event without one
Keys == { "Escape", "A", "D", "W", "none" }

KeyStates == { "Pressed", "Released" }

\* frame times passed to update, in whole units
Deltas == { 0, 1, 3 }

\* app.rs:43-67: the ResourceView as ResourceView::new returns it.
InitApp ==
    /\ IdleLevel
    /\ IdleModel
    /\ IdleTess
    /\ IdleTerrain
    /\ IdleRanges
    /\ rotation = 0
    /\ transform = NewTransform
    /\ held = {}
    /\ app_last = NoAppCall
    /\ app_calls = 0

\* app.rs:81-86: the rotation after a key is pressed
Pressed(key, rot) ==
    CASE key = "A" -> 0 - ANGLE
      [] key = "D" -> ANGLE
      [] OTHER -> rot

\* a release that keeps turning toward the key still held
ReleasedUnlessHeld(key, rot) ==
    CASE key = "A" /\ "D" \in held -> ANGLE
      [] key = "D" /\ "A" \in held -> 0 - ANGLE
      [] key \in { "A", "D" } -> 0
      [] OTHER -> rot

\* app.rs:91-94: the rotation after a key is released
Released(key, rot) == IF key \in { "A", "D" } THEN 0 ELSE rot

\* app.rs:82, 98: what on_key returns
OnKeyReturns(state, key) == ~(state = "Pressed" /\ key = "Escape")

\* app.rs:72-99: on_key for one keyboard event.
OnKey ==
    /\ app_calls < MaxAppCalls
    /\ \E state \in KeyStates, key \in Keys :
          /\ rotation' = CASE key = "none" -> rotation
                            [] state = "Pressed" -> Pressed(key, rotation)
                            [] state = "Released" -> Released(key, rotation)
          /\ held' = CASE key = "none" -> held
                        [] state = "Pressed" -> held \cup { key }
                        [] state = "Released" -> held \ { key }
          /\ app_last' = [ op |-> "on_key", state |-> state, key |-> key,
                           delta |-> 0, ret |-> << OnKeyReturns(state, key) >> ]
    /\ app_calls' = app_calls + 1
    /\ UNCHANGED transform
    /\ UNCHANGED notAppVars

\* app.rs:109-114: other.concat(&self.transform) for other a turn of angle
\* about z with scale 1 and no displacement: the scales multiply, the turns
\* about z add, and the displacement, which lies on the z axis, is kept
ConcatTurn(angle, t) ==
    [ scale |-> 1 * t.scale, disp |-> t.disp, turn |-> angle + t.turn ]

\* app.rs:101-116: update.
Update ==
    /\ app_calls < MaxAppCalls
    /\ \E delta \in Deltas :
          /\ transform' = IF rotation # 0
                             THEN ConcatTurn(rotation * delta, transform)
                             ELSE transform
          /\ app_last' = [ op |-> "update", state |-> "none", key |-> "none",
                           delta |-> delta, ret |-> << >> ]
    /\ app_calls' = app_calls + 1
    /\ UNCHANGED << rotation, held >>
    /\ UNCHANGED notAppVars

NextApp ==
    \/ OnKey
    \/ Update

\* a ResourceView from ResourceView::new through any key events and updates.
SpecApp == InitApp /\ [][NextApp]_vars

----------------------------------------------------------------------------
\* Properties of the model decoders.

\* C7: in load_c3d, in load_c3d_shape and in every chunk read by load_m3d, a
\* version other than 8 fails with UnsupportedVersion when the version is the
\* only field of the chunk read so far, and nothing is returned; a chunk whose
\* version was read goes on exactly when the version is 8.
C7_UnsupportedVersion ==
    /\ mfailure = "UnsupportedVersion" =>
          /\ version # 8
          /\ fieldsRead = 1
          /\ mpc = "failed"
          /\ result = << >>
    /\ fieldsRead >= 1 => (version # 8 <=> mfailure = "UnsupportedVersion")

\* C7 witness: load_m3d decoded the body mesh and reached the body shape chunk,
\* whose version is not 8.
C7_Witness ==
    /\ entry = "m3d"
    /\ ret = "body_shape"
    /\ model.body
    /\ version = 9
    /\ mfailure = "UnsupportedVersion"

\* the step reads the num_corners of a polygon record in the mesh decoder
MeshPolyRead ==
    mpc = "c3d_poly" /\ poly_i < hdr.npoly /\ fieldsRead' = fieldsRead + 1

\* the step reads the num_corners of a polygon record in the shape decoder
ShapePolyRead ==
    mpc = "shp_poly" /\ poly_i < hdr.npoly /\ fieldsRead' = fieldsRead + 1

\* C8: reading a polygon record fails with InvalidPolygon exactly when
\* num_corners is not 3 in the mesh decoder, or not 3 or 4 in the shape
\* decoder; the failure comes with num_corners the only field of the polygon
\* read, no corner pair, and from no other step.
C8_InvalidPolygon ==
    [][ /\ MeshPolyRead =>
              (mfailure' = "InvalidPolygon" <=> num_corners' # 3)
        /\ ShapePolyRead =>
              (mfailure' = "InvalidPolygon" <=> num_corners' \notin {3, 4})
        /\ (mfailure' = "InvalidPolygon" /\ mfailure # "InvalidPolygon") =>
              /\ MeshPolyRead \/ ShapePolyRead
              /\ corner_k' = 0
              /\ vertices' = vertices
              /\ pids' = pids
              /\ result' = << >>
      ]_vars

\* C8 witness: the mesh decoder refused a polygon of 4 corners, which the shape
\* decoder accepts.
C8_Witness ==
    /\ entry = "c3d"
    /\ mfailure = "InvalidPolygon"
    /\ num_corners = 4
    /\ corner_k = 0

\* the raw color[0] of corner tuple c of the mesh being decoded
RawColor(c) == vertices[c][2][3][1]

\* the GPU vertex the index buffer gives for corner tuple c
EmittedFor(c) == gpu_verts[indices[vertices[c][1] + 1] + 1]

\* C9: every GPU vertex emitted by the mesh decoder has a color id below
\* NUM_COLOR_IDS: the raw color[0] when that is below NUM_COLOR_IDS, and
\* COLOR_ID_BODY otherwise.
C9_ColorIdInRange ==
    /\ \A i \in 1..Len(gpu_verts) :
          gpu_verts[i].color >= 0 /\ gpu_verts[i].color < NUM_COLOR_IDS
    /\ mpc = "c3d_built" =>
          \A c \in 1..Len(vertices) :
              EmittedFor(c).color =
                  IF RawColor(c) < NUM_COLOR_IDS THEN RawColor(c) ELSE COLOR_ID_BODY

\* C9 witness: a mesh was compacted whose polygon has the raw color
\* NUM_COLOR_IDS, just out of range.
C9_Witness ==
    /\ mpc = "c3d_built"
    /\ Len(gpu_verts) > 0
    /\ \E c \in 1..Len(vertices) : RawColor(c) = NUM_COLOR_IDS

\* the compaction result for the corner tuples read: one GPU vertex per
\* distinct key, and the vertex of every corner is the conversion of its key
CompactionExact ==
    /\ Len(indices) = Len(vertices)
    /\ Len(gpu_verts) = Cardinality({ vertices[c][2] : c \in 1..Len(vertices) })
    /\ \A c \in 1..Len(vertices) : EmittedFor(c) = convert(vertices[c][2])

\* C10 as stated: for any number of corners, compaction emits one GPU vertex
\* per distinct key with indices[c] naming the conversion of corner c's key.
C10_CompactionAnyCount ==
    /\ mfailure # "EmptyVertices"
    /\ mpc = "c3d_built" => CompactionExact

\* for at least one corner the compaction is exact
CompactionExactWhenBuilt == mpc = "c3d_built" => CompactionExact

\* the polygon last pushed by the shape decoder
LastPolygon == shape.polygons[Len(shape.polygons)]

\* C11 as stated: the number of samples recorded for a polygon decoded by
\* load_c3d_shape, sample_range.1 - sample_range.0, is num_corners + 1.
C11_SamplesPerCorner ==
    (mpc = "shp_poly" /\ Len(shape.polygons) > 0) =>
        LastPolygon.sample_range[2] - LastPolygon.sample_range[1] = num_corners + 1

Abs(x) == IF x >= 0 THEN x ELSE 0 - x

\* the quotient of x by 2 truncated toward zero: the h nearest to zero with
\* x - 2h in {-1, 0, 1}
TruncHalf(x) == CHOOSE h \in -64..64 : Abs(2 * h) <= Abs(x) /\ Abs(x - 2 * h) <= 1

\* the samples stated for QuadCorners around the middle (0, 0, 0)
QuadSamples ==
    << << 0, 0, 0 >>, << 5, 0, 0 >>, << 0, 5, 0 >>, << -5, 0, 0 >>, << 0, -5, 0 >> >>

HasBit(mask, i) == (mask % (2 ^ (i + 1))) >= 2 ^ i

\* the indices, of 0..2, of the bits set in mask
SetBits(mask) == { i \in 0..2 : HasBit(mask, i) }

\* the slot made of record i of the file
SlotOf(i) ==
    [ mesh |-> FALSE, scale |-> 1, pos |-> << 3 * i + 1, 3 * i + 2, 3 * i + 3 >>,
      angle |-> 10 * (i + 1) ]

\* C13: the slots of a decoded model are, in ascending slot index order,
\* exactly the records whose bit is set in slot_mask, popcount(slot_mask & 7)
\* of them, each with the pos and angle of its record; mask 5 with records
\* ((1,2,3), 10), ((4,5,6), 20), ((7,8,9), 30) keeps the first and the third.
C13_SlotsByMask ==
    mpc = "m3d_built" =>
        /\ Len(model.slots) = Cardinality(SetBits(slot_mask))
        /\ \A i \in SetBits(slot_mask) :
              model.slots[Cardinality({ j \in SetBits(slot_mask) : j <= i })] =
                  SlotOf(i)
        /\ slot_mask = 5 =>
              model.slots =
                  << [ mesh |-> FALSE, scale |-> 1, pos |-> << 1, 2, 3 >>,
                       angle |-> 10 ],
                     [ mesh |-> FALSE, scale |-> 1, pos |-> << 7, 8, 9 >>,
                       angle |-> 30 ] >>

\* C13 witness: a model was decoded with slot_mask 13, which has a bit above
\* the three slots, and kept the first and the third record.
C13_Witness ==
    /\ mpc = "m3d_built"
    /\ slot_mask = 13
    /\ Len(model.slots) = 2
    /\ model.slots[2].angle = 30

\* C14 as stated: after slot_mask, load_m3d has consumed three slot records,
\* 48 bytes, whatever slot_mask is.
C14_AlwaysThreeSlots ==
    mpc = "m3d_built" => (slot_i = 3 /\ consumed = 48)

\* a wheel is pushed by the step
WheelPushed == Len(model'.wheels) = Len(model.wheels) + 1

\* C15: a wheel has a mesh exactly when its steer is not 0; a wheel record
\* with steer = 0 is pushed after its 40 bytes (steer, 3 f64, width, radius,
\* bound index) with no chunk decoder started, and one with steer # 0 starts
\* load_c3d.
C15_WheelMesh ==
    /\ [](\A w \in 1..Len(model.wheels) :
             model.wheels[w].mesh <=> (model.wheels[w].steer # 0))
    /\ [][ (mpc = "m3d_parts" /\ Len(model.wheels) < num_wheels
                /\ mfailure' = mfailure) =>
              IF WheelPushed
              THEN /\ model'.wheels[Len(model'.wheels)].steer = 0
                   /\ consumed' = 4 + 3 * 8 + 4 + 4 + 4
                   /\ mpc' = "m3d_parts"
                   /\ fieldsRead' = fieldsRead
                   /\ version' = version
              ELSE /\ wheel'.steer # 0
                   /\ mpc' = "c3d_version"
                   /\ ret' = "wheel"
         ]_vars

\* C15 witness: a model was decoded with one wheel of steer 0, without a mesh.
C15_Witness ==
    /\ mpc = "m3d_built"
    /\ Len(model.wheels) > 0
    /\ model.wheels[1].steer = 0
    /\ ~model.wheels[1].mesh

----------------------------------------------------------------------------
\* Properties of the terrain Context.

\* the step is a call of the method op on a live Context
CallOf(op) == ctx_pc = "live" /\ ctx_calls' = ctx_calls + 1 /\ last_call'.op = op

\* the variant of the Context
Tag == ctx[1].kind.tag

\* C16: prepare() on a Context that is not Scatter (Ray or Slice) records no
\* command into the encoder, whatever calls were made before, and the encoder
\* of such a Context never holds a compute command.
C16_PrepareNonScatter ==
    /\ [][ (CallOf("prepare") /\ Tag # "Scatter") =>
              (encoder' = encoder /\ ctx' = ctx /\ device_count' = device_count)
         ]_vars
    /\ []((ctx_pc = "live" /\ Tag # "Scatter") =>
             \A i \in 1..Len(encoder) :
                 encoder[i].op \notin { "begin_compute_pass", "dispatch" })

\* C16 witness: prepare was called on a Slice Context after a reload, and the
\* encoder is empty.
C16_Witness ==
    /\ ctx_pc = "live"
    /\ Tag = "Slice"
    /\ last_call.op = "prepare"
    /\ ctx[1].kind.pipeline.id >= BaseObjects + 5
    /\ encoder = << >>

\* the least number of groups of g that cover w
CeilDiv(w, g) == (w + g - 1) \div g

\* C17: after calls ending in resize(e), the storage texture of a Scatter
\* Context has extent e and its compute group count is the one of e; resize
\* leaves a Ray or Slice Context, the device and the encoder as they were.
C17_Resize ==
    /\ []((ctx_pc = "live" /\ last_call.op = "resize" /\ Tag = "Scatter") =>
             /\ ctx[1].kind.bind_group.texture.size = last_call.extent
             /\ ctx[1].kind.compute_groups =
                    << CeilDiv(last_call.extent[1], 16),
                       CeilDiv(last_call.extent[2], 16), 1 >>)
    /\ [][ (CallOf("resize") /\ Tag # "Scatter") =>
              (ctx' = ctx /\ device_count' = device_count /\ encoder' = encoder)
         ]_vars

\* C17 witness: a Scatter Context built for 1920 x 1080 went through two other
\* calls and was then resized to 17 x 32, whose group count is (2, 2, 1).
C17_Witness ==
    /\ ctx_pc = "live"
    /\ Tag = "Scatter"
    /\ screen_extent = << 1920, 1080 >>
    /\ ctx_calls = 3
    /\ last_call = [ op |-> "resize", extent |-> << 17, 32 >> ]
    /\ ctx[1].kind.bind_group.texture.size = << 17, 32 >>
    /\ ctx[1].kind.compute_groups = << 2, 2, 1 >>

\* C18: the group count create_scatter_resources computes for a storage
\* texture of extent (width, height) is (ceil(width/16), ceil(height/16), 1),
\* which for 1920 x 1080 is (120, 68, 1).
C18_GroupCount ==
    (ctx_pc = "live" /\ Tag = "Scatter") =>
        LET size == ctx[1].kind.bind_group.texture.size
            groups == ctx[1].kind.compute_groups
        IN  /\ groups[3] = 1
            /\ \A j \in 1..2 :
                  /\ groups[j] * 16 >= size[j]
                  /\ (groups[j] - 1) * 16 < size[j]
            /\ size = << 1920, 1080 >> => groups = << 120, 68, 1 >>

\* C18 witness: a Scatter Context was built for 1920 x 1080, whose height is
\* no multiple of 16.
C18_Witness ==
    /\ ctx_pc = "live"
    /\ Tag = "Scatter"
    /\ ctx_calls = 0
    /\ ctx[1].kind.bind_group.texture.size = << 1920, 1080 >>
    /\ ctx[1].kind.compute_groups = << 120, 68, 1 >>

\* p is a pipeline created by the step, from the same shaders and layout as q
Recreated(p, q) ==
    /\ p.id >= device_count
    /\ p.id < device_count'
    /\ p.shaders = q.shaders
    /\ p.layout = q.layout

\* C19: a reload whose pipelines are created replaces the pipelines of the
\* active variant (one for Ray and Slice; scatter, clear and copy for Scatter)
\* and nothing else: the uniform buffer, the shared bind group, the pipeline
\* layouts, the vertex and index buffers, the Scatter bind group and the group
\* count stay.
C19_ReloadPipelinesOnly ==
    [][ (CallOf("reload") /\ ctx_pc' = "live") =>
           LET old == ctx[1]
               new == ctx'[1]
           IN  /\ new.uniform_buf = old.uniform_buf
               /\ new.bind_group = old.bind_group
               /\ new.pipeline_layout = old.pipeline_layout
               /\ new.kind.tag = old.kind.tag
               /\ encoder' = encoder
               /\ IF old.kind.tag = "Scatter"
                  THEN /\ new.kind.pipeline_layout = old.kind.pipeline_layout
                       /\ new.kind.bg_layout = old.kind.bg_layout
                       /\ new.kind.bind_group = old.kind.bind_group
                       /\ new.kind.compute_groups = old.kind.compute_groups
                       /\ Recreated(new.kind.scatter_pipeline,
                                    old.kind.scatter_pipeline)
                       /\ Recreated(new.kind.clear_pipeline, old.kind.clear_pipeline)
                       /\ Recreated(new.kind.copy_pipeline, old.kind.copy_pipeline)
                  ELSE /\ new.kind.vertex_buf = old.kind.vertex_buf
                       /\ new.kind.index_buf = old.kind.index_buf
                       /\ new.kind.num_indices = old.kind.num_indices
                       /\ Recreated(new.kind.pipeline, old.kind.pipeline)
      ]_vars

\* C19 witness: a Scatter Context was resized and then reloaded: its pipelines
\* are newer than its bind group.
C19_Witness ==
    /\ ctx_pc = "live"
    /\ Tag = "Scatter"
    /\ last_call.op = "reload"
    /\ ctx[1].kind.bind_group.id > BaseObjects + 12
    /\ ctx[1].kind.scatter_pipeline.id > ctx[1].kind.bind_group.id

\* C20: a reload in which a Shaders::new fails ends with that error, and the
\* Context holds every pipeline it held before the call: of the three Scatter
\* pipelines none is replaced.
C20_ReloadFailure ==
    [][ (ctx_pc = "live" /\ ctx_pc' = "panicked") =>
           /\ last_call'.op = "reload"
           /\ ctx_failure' = "ShaderError"
           /\ ctx' = ctx
      ]_vars

\* C20 witness: the reload of a Scatter Context failed at its third
\* Shaders::new, after the scatter and clear pipelines had been created.
C20_Witness ==
    /\ ctx_pc = "panicked"
    /\ ctx # << >>
    /\ ctx_failure = "ShaderError"
    /\ ctx_calls = 1
    /\ device_count = BaseObjects + 12 + 4

\* C21: Context::new with the Tessellated kind, and with every kind that is
\* not supported (RayTraced as well), ends with Unimplemented and no Context;
\* with a supported kind it never does.
C21_Unimplemented ==
    ctx_pc \notin { "none", "idle" } =>
        /\ terrain_config \in { "Tessellated", "RayTraced" } =>
              (ctx_failure = "Unimplemented" /\ ctx_pc = "panicked" /\ ctx = << >>)
        /\ terrain_config \in { "RayTracedOld", "Sliced", "Scattered" } =>
              ctx_failure # "Unimplemented"

\* C21 witness: Context::new was called with Tessellated and panicked after
\* the level uploads were recorded.
C21_Witness ==
    /\ terrain_config = "Tessellated"
    /\ ctx_pc = "panicked"
    /\ ctx_failure = "Unimplemented"
    /\ ctx = << >>
    /\ Len(init_encoder) = 5

\* the commands the step appended to the encoder
Appended == SubSeq(encoder', Len(encoder) + 1, Len(encoder'))

\* the commands of cmds that set a pipeline, dispatch or draw
Work(cmds) ==
    SelectSeq(cmds, LAMBDA c : c.op \in { "set_pipeline", "dispatch", "draw" })

\* the indices of the commands of the encoder with operation op
At(op) == { i \in 1..Len(encoder) : encoder[i].op = op }

\* C22: in the Scatter variant prepare() records the clear pipeline and its
\* dispatch with the stored group count, then the scatter pipeline and its
\* dispatch with (100, 100, 1); draw() records the copy pipeline and a draw of
\* 4 vertices and 1 instance; so when the commands of a Context start with a
\* prepare(), every copy draw comes after a clear dispatch and a scatter
\* dispatch, in that order.
C22_ScatterOrder ==
    /\ [][ (CallOf("prepare") /\ Tag = "Scatter") =>
              /\ SubSeq(encoder', 1, Len(encoder)) = encoder
              /\ Work(Appended) =
                    << Cmd("set_pipeline", << ctx[1].kind.clear_pipeline.id >>),
                       Cmd("dispatch", ctx[1].kind.compute_groups),
                       Cmd("set_pipeline", << ctx[1].kind.scatter_pipeline.id >>),
                       Cmd("dispatch", << 100, 100, 1 >>) >>
         ]_vars
    /\ [][ (CallOf("draw") /\ Tag = "Scatter") =>
              /\ SubSeq(encoder', 1, Len(encoder)) = encoder
              /\ Work(Appended) =
                    << Cmd("set_pipeline", << ctx[1].kind.copy_pipeline.id >>),
                       Cmd("draw", << 0, 4, 0, 1 >>) >>
         ]_vars
    /\ []((ctx_pc = "live" /\ Tag = "Scatter" /\ encoder # << >>
              /\ encoder[1].op = "begin_compute_pass") =>
             \A i \in At("draw") :
                 \E j, k \in At("dispatch") :
                     /\ j < k
                     /\ k < i
                     /\ encoder[k].args = << 100, 100, 1 >>
                     /\ \A n \in At("draw") : n > k \/ n < j)

\* C22 witness: a Scatter Context built for 17 x 32 recorded prepare() and
\* then draw(): 12 commands, the dispatch of (2, 2, 1) the sixth, the dispatch
\* of (100, 100, 1) the eighth and the copy draw the last.
C22_Witness ==
    /\ ctx_pc = "live"
    /\ Tag = "Scatter"
    /\ last_call.op = "draw"
    /\ Len(encoder) = 12
    /\ encoder[6] = Cmd("dispatch", << 2, 2, 1 >>)
    /\ encoder[8] = Cmd("dispatch", << 100, 100, 1 >>)
    /\ encoder[12] = Cmd("draw", << 0, 4, 0, 1 >>)

\* the variant Context::new builds for a configuration
TagOf(cfg) ==
    CASE cfg = "RayTracedOld" -> "Ray"
      [] cfg = "Sliced" -> "Slice"
      [] cfg = "Scattered" -> "Scatter"

\* C23: the variant of a Context is the one Context::new built for the
\* configuration, after any calls of reload, resize, prepare and draw, a
\* failed reload included.
C23_KindFixed == ctx # << >> => Tag = TagOf(terrain_config)

\* C23 witness: a Slice Context after a reload, a resize and a draw.
C23_Witness ==
    /\ ctx_pc = "live"
    /\ terrain_config = "Sliced"
    /\ Tag = "Slice"
    /\ ctx_calls = 3
    /\ last_call.op = "draw"
    /\ ctx[1].kind.pipeline.id > BaseObjects + 5
    /\ Len(encoder) = 5

\* C24: tessellate never overflows i8: no call panics on a sum, and every
\* sample component is within -128..127 and within 1 of half the sum of the
\* corner and middle components, which a wrapped value is not.
C24_StaysInI8 ==
    /\ tpc # "panicked"
    /\ tpc = "returned" =>
          \A c \in 1..Len(tess_corners) : \A j \in 1..3 :
              /\ tess_samples[c + 1][j] >= -128
              /\ tess_samples[c + 1][j] <= 127
              /\ Abs(2 * tess_samples[c + 1][j]
                        - (tess_corners[c][j] + tess_middle[j])) <= 2

\* C24 witness: the first tessellate call returned for a corner and a middle
\* that are both -128 on one coordinate, the extreme sum, with sample -128.
C24_Witness ==
    /\ tpc = "returned"
    /\ \E c \in 1..Len(tess_corners) : \E j \in 1..3 :
          /\ tess_corners[c][j] = -128
          /\ tess_middle[j] = -128
          /\ tess_samples[c + 1][j] = -128
    /\ tess_calls = 1

\* C25 as stated: the sample ranges of load_c3d_shape partition shape.samples
\* in order: the first polygon's sample_range.0 is 0, each polygon's
\* sample_range.0 is the previous polygon's sample_range.1, and the last
\* polygon's sample_range.1 is samples.len(), the endpoints being the true
\* sample counts.
C25_RangesPartition ==
    polygons_len > 0 =>
        LET last == range_tail[Len(range_tail)]
        IN  /\ first_range = << << 0, QuadSampleCount >> >>
            /\ Len(range_tail) = 2 => last[1] = range_tail[1][2]
            /\ last[1] = samples_len - QuadSampleCount
            /\ last[2] = samples_len

\* the ranges partition the samples while they number at most 65535
RangesPartitionBelowU16 == samples_len <= 65535 => C25_RangesPartition

\* a Shape of 13107 polygons is returned, its last range ending at 65535
RangesAtU16Max ==
    /\ rpc = "returned"
    /\ polygons_len = 13107
    /\ range_tail[2] = << 65530, 65535 >>

\* the bytes of a .c3d chunk with the header h whose polygons all have 3
\* corners: version and header, 19 per position, 8 per normal, 47 per polygon
\* and three sort tables of one u32 per polygon
TriangleChunkBytes(h) == 176 + 19 * h.np + 8 * h.nn + 47 * h.npoly + 3 * 4 * h.npoly

\* every polygon the shape decoder read had 3 corners: told by the edge list,
\* two indices per corner, when there is one, and else for one polygon only
ShapeTriangles ==
    IF factory
    THEN Len(ind) = 2 * 3 * poly_i
    ELSE poly_i = 0 \/ (poly_i = 1 /\ num_corners = 3)

\* C26: for a .c3d chunk whose polygons all have 3 corners, load_c3d and
\* load_c3d_shape consume the same number of bytes, the length of the chunk:
\* load_c3d when it returns, and when it stops at the compaction of no
\* vertices, and load_c3d_shape when it returns.
C26_SameBytes ==
    /\ (mpc = "c3d_built" \/ mfailure = "EmptyVertices") =>
          consumed = TriangleChunkBytes(hdr)
    /\ (mpc = "shp_built" /\ ShapeTriangles) =>
          consumed = TriangleChunkBytes(hdr)

\* C26 witness: in load_m3d the shape of a debris, read after its mesh, is
\* decoded to its end from a chunk with a position, a normal and a polygon of
\* 3 corners, 262 bytes.
C26_Witness ==
    /\ entry = "m3d"
    /\ mpc = "shp_built"
    /\ ret = "debris"
    /\ hdr = [ np |-> 1, nn |-> 1, npoly |-> 1 ]
    /\ num_corners = 3
    /\ consumed = 262

\* failures of a chunk that is not well-formed: a version other than 8, a
\* polygon of other than 3 corners, an id past its table, a source that ends
IllFormed == { "UnsupportedVersion", "InvalidPolygon", "IndexOutOfBounds", "IoError" }

\* C27 as stated: load_c3d completes for every well-formed .c3d chunk: it stops
\* only for a chunk that is not well-formed, and for num_polygons = 0 the
\* compaction yields an empty vertex list and an empty index list.
C27_CompletesOnEmpty ==
    /\ (entry = "c3d" /\ mpc = "failed") => mfailure \in IllFormed
    /\ (entry = "c3d" /\ mpc = "c3d_built" /\ hdr.npoly = 0) =>
          gpu_verts = << >> /\ indices = << >>

\* load_c3d returns a Mesh for a well-formed chunk of one polygon or more
MeshOfPolygonsReturned ==
    /\ entry = "c3d"
    /\ mpc = "done"
    /\ hdr.npoly >= 1
    /\ Len(indices) = 3 * hdr.npoly

\* C28: in the model viewer the rotation is always one of -2, 0, +2 rad; a call
\* of on_key sets it to -2 for a pressed A, to +2 for a pressed D, to 0 for a
\* released A or D whatever is still held, and leaves it alone for any other
\* event; on_key returns false for a pressed Escape only and never touches the
\* transform; update leaves the rotation alone, and leaves the transform alone
\* whenever the rotation is 0.
C28_KeyHandling ==
    /\ [](rotation \in { -2, 0, 2 })
    /\ [][ app_calls' # app_calls =>
            LET e == app_last'
            IN  /\ e.op = "on_key" =>
                      /\ rotation' =
                            CASE e.state = "Pressed" /\ e.key = "A" -> -2
                              [] e.state = "Pressed" /\ e.key = "D" -> 2
                              [] e.state = "Released" /\ e.key \in { "A", "D" } -> 0
                              [] OTHER -> rotation
                      /\ e.ret = << ~(e.state = "Pressed" /\ e.key = "Escape") >>
                      /\ transform' = transform
                /\ e.op = "update" =>
                      /\ rotation' = rotation
                      /\ rotation = 0 => transform' = transform ]_vars

\* C28 witness: A is released while D, pressed earlier, is still held: the
\* rotation is 0, after an update that turned the model.
C28_Witness ==
    /\ app_last.op = "on_key"
    /\ app_last.state = "Released"
    /\ app_last.key = "A"
    /\ "D" \in held
    /\ rotation = 0
    /\ transform.turn # 0

====
